---- MODULE Spec2Model ----
(***************************************************************************)
(* SuiteDreams: weighted-random generation of GFIT test cases from an XML  *)
(* product specification.                                                  *)
(*                                                                         *)
(* The module models                                                       *)
(*   - the weight parsing and the two selection algorithms of              *)
(*     productspec.SchemaHandler and filebuilder.FileBuilder,              *)
(*   - the ProductSpec accessors and the five table builders of            *)
(*     testcasetable.py,                                                   *)
(*   - main.process and FileBuilder.produce_test_case.                     *)
(*                                                                         *)
(* Specifications:                                                         *)
(*   SpecSel     the selection functions applied to enumerated inputs      *)
(*   SpecFns     add_row, count, fetch_selected_elements and               *)
(*               process_coverables applied to enumerated inputs           *)
(*   SpecTables  create_test_tables, scenario by scenario, in one run      *)
(*   SpecRuns    the same in two runs on one document                      *)
(*   Spec        main.process and FileBuilder.produce_test_case            *)
(*                                                                         *)
(* Texts that the code converts with int() are sequences of one-character  *)
(* strings; every other text is a string.  A call result is a record       *)
(* [exc, val]: exc = "none" when the call returned val, and otherwise the  *)
(* name of the exception it raised.                                        *)
(***************************************************************************)
EXTENDS Integers, Sequences, FiniteSets, TLC

VARIABLES
    doc,        \* the parsed product specification (root element), read-only
    today,      \* the date datetime.today() returns
    pc,         \* position of main.process
    num,        \* loop variable of main.process
    grng,       \* state of the generator of module `random`
    seedCalls,  \* instrumentation: calls of random.seed so far in the run
    fb,         \* the FileBuilder under way and its TestCase
    exit,       \* exit status of main ("running" until sys.exit)
    prng,       \* run -> state of ProductSpec._random
    tpc,        \* run -> position inside create_test_tables
    scen,       \* run -> number of the scenario under way
    body,       \* run -> the elements appended to the HTML body so far
    tables,     \* run -> the table objects create_test_tables constructed
    drawLog,    \* run -> instrumentation: the draws of the scenario under way
    suite,      \* run -> the bodies of the scenarios completed
    selIn,      \* inputs of the selection functions under test
    selOut      \* their results

vars == <<doc, today, pc, num, grng, seedCalls, fb, exit,
          prng, tpc, scen, body, tables, drawLog, suite, selIn, selOut>>

mainVars == <<pc, num, grng, seedCalls, fb, exit>>
tableVars == <<prng, tpc, scen, body, tables, drawLog, suite>>
selVars == <<selIn, selOut>>

-----------------------------------------------------------------------------
(* Bounds of the model                                                     *)

\* longest weight text enumerated for fetch_weight
MaxLen == 3
\* most candidates of one alternative list enumerated for process_values
MaxCand == 3
\* largest Count of a document
MaxCount == 2

-----------------------------------------------------------------------------
(* Results of calls                                                        *)

Ok(v) == [exc |-> "none", val |-> v]
Raise(e) == [exc |-> e, val |-> "none"]
Raised(r) == r.exc # "none"

-----------------------------------------------------------------------------
(* int(text) of Python, on texts given as sequences of characters          *)

Digits == {"0", "1", "2", "3", "4", "5", "6", "7", "8", "9"}

DigitVal(c) ==
    CASE c = "0" -> 0 [] c = "1" -> 1 [] c = "2" -> 2 [] c = "3" -> 3
      [] c = "4" -> 4 [] c = "5" -> 5 [] c = "6" -> 6 [] c = "7" -> 7
      [] c = "8" -> 8 [] c = "9" -> 9

RECURSIVE LStrip(_)
LStrip(t) == IF t # <<>> /\ Head(t) = " " THEN LStrip(Tail(t)) ELSE t

RECURSIVE RStrip(_)
RStrip(t) ==
    IF t # <<>> /\ t[Len(t)] = " " THEN RStrip(SubSeq(t, 1, Len(t) - 1)) ELSE t

Strip(t) == RStrip(LStrip(t))

\* digits, with single underscores allowed between two digits
WellFormedDigits(t) ==
    /\ t # <<>>
    /\ Head(t) \in Digits
    /\ t[Len(t)] \in Digits
    /\ \A i \in 1..Len(t) : t[i] \in Digits \cup {"_"}
    /\ \A i \in 1..(Len(t) - 1) : ~(t[i] = "_" /\ t[i + 1] = "_")

RECURSIVE DigitsValue(_, _)
DigitsValue(t, acc) ==
    IF t = <<>> THEN acc
    ELSE IF Head(t) = "_" THEN DigitsValue(Tail(t), acc)
    ELSE DigitsValue(Tail(t), 10 * acc + DigitVal(Head(t)))

\* int(text): raises ValueError on anything but [ws] [sign] digits [ws]
PyInt(t) ==
    LET s == Strip(t)
        signed == s # <<>> /\ Head(s) \in {"-", "+"}
        d == IF signed THEN Tail(s) ELSE s
    IN  IF ~WellFormedDigits(d) THEN Raise("ValueError")
        ELSE IF signed /\ Head(s) = "-" THEN Ok(0 - DigitsValue(d, 0))
        ELSE Ok(DigitsValue(d, 0))

-----------------------------------------------------------------------------
(* XML attributes and elements                                             *)

\* an attribute of an element: absent, or present with a text
NoAttr == [present |-> FALSE, text |-> <<>>]
Attr(t) == [present |-> TRUE, text |-> t]

\* element.get(name, default)
GetAttr(a, default) == IF a.present THEN a.text ELSE default

-----------------------------------------------------------------------------
(* Generators                                                              *)

\* one step of a generator: the successor state of the stream
NextState(s) == (21 * s + 7) % 100

\* randint(1, 100) on a generator in state s: the new state and the draw
Randint(s) == [state |-> NextState(s), val |-> 1 + (NextState(s) % 100)]

\* random.seed(n): the state the generator takes from seed n
SeedState(n) == (37 * (IF n < 0 THEN 0 - n ELSE n) + 11) % 100

\* the states a generator created without a seed can start in
EntropyStates == 0..99

-----------------------------------------------------------------------------
(* SchemaHandler: weights and the two selection algorithms                 *)

\* fetch_weight without the lower and upper limits
Mutant_fetch_weight(element) ==
    LET value == GetAttr(element.weight, <<"1", "0", "0">>)
        parsed == PyInt(value)
    IN  IF Raised(parsed) THEN Raise("SuiteDreamsException") ELSE Ok(parsed.val)

SchemaHandler_fetch_weight(element) ==
    LET value == GetAttr(element.weight, <<"1", "0", "0">>)
        parsed == PyInt(value)
    IN  IF Raised(parsed) THEN Raise("SuiteDreamsException")
        ELSE IF parsed.val < 0 \/ parsed.val > 100
             THEN Raise("SuiteDreamsException")
        ELSE Ok(parsed.val)

\* select_element comparing with < instead of <=
Mutant_select_element(element, selector) ==
    LET weight == SchemaHandler_fetch_weight(element)
    IN  IF Raised(weight) THEN weight ELSE Ok(selector < weight.val)

SchemaHandler_select_element(element, selector) ==
    LET weight == SchemaHandler_fetch_weight(element)
    IN  IF Raised(weight) THEN weight ELSE Ok(selector <= weight.val)

\* the scan comparing the selector with each weight alone (no running sum)
RECURSIVE Mutant_scan_no_sum(_, _, _)
Mutant_scan_no_sum(value_elements, sum_weights, selector) ==
    IF value_elements = <<>> THEN Raise("SuiteDreamsException")
    ELSE LET weight == SchemaHandler_fetch_weight(Head(value_elements))
         IN  IF Raised(weight) THEN weight
             ELSE IF selector <= weight.val
                  THEN Ok(Head(value_elements).text)
             ELSE Mutant_scan_no_sum(Tail(value_elements), sum_weights, selector)

\* the scan falling back to the last candidate when the weights run out
RECURSIVE Mutant_scan_default(_, _, _)
Mutant_scan_default(value_elements, sum_weights, selector) ==
    IF value_elements = <<>> THEN Raise("SuiteDreamsException")
    ELSE LET weight == SchemaHandler_fetch_weight(Head(value_elements))
         IN  IF Raised(weight) THEN weight
             ELSE IF selector <= sum_weights + weight.val \/ Len(value_elements) = 1
                  THEN Ok(Head(value_elements).text)
             ELSE Mutant_scan_default(Tail(value_elements),
                                      sum_weights + weight.val, selector)

RECURSIVE SchemaHandler_scan_values(_, _, _)
SchemaHandler_scan_values(value_elements, sum_weights, selector) ==
    IF value_elements = <<>> THEN Raise("SuiteDreamsException")
    ELSE LET weight == SchemaHandler_fetch_weight(Head(value_elements))
         IN  IF Raised(weight) THEN weight
             ELSE IF selector <= sum_weights + weight.val
                  THEN Ok(Head(value_elements).text)
             ELSE SchemaHandler_scan_values(Tail(value_elements),
                                            sum_weights + weight.val, selector)

SchemaHandler_process_values(value_elements, selector) ==
    SchemaHandler_scan_values(value_elements, 0, selector)

-----------------------------------------------------------------------------
(* FileBuilder: its own copies of the three functions                      *)

FileBuilder_fetch_weight(element) ==
    LET value == GetAttr(element.weight, <<"1", "0", "0">>)
        parsed == PyInt(value)
    IN  IF Raised(parsed) THEN Raise("SuiteDreamsException")
        ELSE IF parsed.val < 0 \/ parsed.val > 100
             THEN Raise("SuiteDreamsException")
        ELSE Ok(parsed.val)

FileBuilder_select_element(element, selector) ==
    LET weight == FileBuilder_fetch_weight(element)
    IN  IF Raised(weight) THEN weight ELSE Ok(selector <= weight.val)

RECURSIVE FileBuilder_scan_values(_, _, _)
FileBuilder_scan_values(value_elements, sum_weights, selector) ==
    IF value_elements = <<>> THEN Raise("SuiteDreamsException")
    ELSE LET weight == FileBuilder_fetch_weight(Head(value_elements))
         IN  IF Raised(weight) THEN weight
             ELSE IF selector <= sum_weights + weight.val
                  THEN Ok(Head(value_elements).text)
             ELSE FileBuilder_scan_values(Tail(value_elements),
                                          sum_weights + weight.val, selector)

\* process_values draws its selector from the generator of module `random`:
\* the result is the new generator state, the draw and the call's result
FileBuilder_process_values(value_elements, g) ==
    LET draw == Randint(g)
    IN  [state |-> draw.state, selector |-> draw.val,
         result |-> FileBuilder_scan_values(value_elements, 0, draw.val)]

-----------------------------------------------------------------------------
(* Inputs of the selection functions                                       *)

\* str(n): the decimal text of an integer
RECURSIVE NatChars(_)
NatChars(n) ==
    LET d == <<"0", "1", "2", "3", "4", "5", "6", "7", "8", "9">>
    IN  IF n < 10 THEN <<d[n + 1]>> ELSE NatChars(n \div 10) \o <<d[(n % 10) + 1]>>

IntChars(n) == IF n < 0 THEN <<"-">> \o NatChars(0 - n) ELSE NatChars(n)

\* the characters weight texts are made of; "x" stands for any character
\* that int() accepts nowhere
Alphabet == {"0", "1", "9", "-", "+", " ", "_", "x"}

Texts == UNION {[1..n -> Alphabet] : n \in 0..MaxLen}

\* the numeric weights written into weight attributes
WeightsTried == {-1, 0, 1, 50, 99, 100, 101}

\* the weights of the candidates of an alternative list
CandWeights == {0, 30, 70, 100, 120}

CandText(i) == "value" \o ToString(i)

\* the Value / Answer / Term children carrying the weights ws, in order
MkCands(ws) ==
    [i \in 1..Len(ws) |-> [weight |-> Attr(IntChars(ws[i])), text |-> CandText(i)]]

WeightLists == UNION {[1..n -> CandWeights] : n \in 0..MaxCand}

\* kind "text": an element whose weight attribute holds an arbitrary text
\* kind "absent": an element without weight attribute
\* kind "weight": an element whose weight attribute is str(n), and a generator
\* kind "values": an element with candidates of weights ws, and a generator
SelInputs ==
    {[kind |-> "text", weight |-> Attr(t), n |-> 0, g |-> 0, ws |-> <<>>,
      cands |-> <<>>] : t \in Texts}
    \cup {[kind |-> "absent", weight |-> NoAttr, n |-> 100, g |-> g, ws |-> <<>>,
           cands |-> <<>>] : g \in EntropyStates}
    \cup {[kind |-> "weight", weight |-> Attr(IntChars(n)), n |-> n, g |-> g,
           ws |-> <<>>, cands |-> <<>>] : n \in WeightsTried, g \in EntropyStates}
    \cup {[kind |-> "values", weight |-> NoAttr, n |-> 100, g |-> g, ws |-> ws,
           cands |-> MkCands(ws)] : ws \in WeightLists, g \in EntropyStates}

NoSelIn == [kind |-> "none", weight |-> NoAttr, n |-> 0, g |-> 0, ws |-> <<>>,
            cands |-> <<>>]
NoSelOut == [fn |-> "none", selector |-> 0, result |-> Ok(0)]

\* the selector the caller passes: one draw of the generator (random_selector)
SelSelector == Randint(selIn.g).val

-----------------------------------------------------------------------------
(* Idle values of the parts a specification leaves alone                   *)

Runs == {1, 2}

NoDoc == [kind |-> "none"]
NoDate == [year |-> 0, month |-> 0, day |-> 0]
NoFb == [num |-> 0, rows |-> <<>>, state |-> "none", exc |-> "none"]

MainIdle ==
    /\ pc = "idle" /\ num = 0 /\ grng = 0 /\ seedCalls = 0
    /\ fb = NoFb /\ exit = "running"

TablesIdle ==
    /\ prng = [r \in Runs |-> 0]
    /\ tpc = [r \in Runs |-> [at |-> "off", i |-> 0, exc |-> "none"]]
    /\ scen = [r \in Runs |-> 0]
    /\ body = [r \in Runs |-> <<>>]
    /\ tables = [r \in Runs |-> <<>>]
    /\ drawLog = [r \in Runs |-> <<>>]
    /\ suite = [r \in Runs |-> <<>>]

SelIdle == selIn = NoSelIn /\ selOut = NoSelOut

-----------------------------------------------------------------------------
(* SpecSel: the selection functions applied to enumerated inputs           *)

InitSel ==
    /\ doc = NoDoc /\ today = NoDate
    /\ MainIdle /\ TablesIdle
    /\ selIn \in SelInputs
    /\ selOut = NoSelOut

Apply(fn, selector, result) ==
    /\ selOut.fn = "none"
    /\ selOut' = [fn |-> fn, selector |-> selector, result |-> result]
    /\ UNCHANGED <<doc, today, mainVars, tableVars, selIn>>

ApplySchemaFetchWeight ==
    /\ selIn.kind \in {"text", "absent", "weight"}
    /\ Apply("SchemaHandler.fetch_weight", 0, SchemaHandler_fetch_weight(selIn))

ApplyBuilderFetchWeight ==
    /\ selIn.kind \in {"text", "absent", "weight"}
    /\ Apply("FileBuilder.fetch_weight", 0, FileBuilder_fetch_weight(selIn))

ApplySchemaSelectElement ==
    /\ selIn.kind \in {"absent", "weight"}
    /\ Apply("SchemaHandler.select_element", SelSelector,
             SchemaHandler_select_element(selIn, SelSelector))

ApplyBuilderSelectElement ==
    /\ selIn.kind \in {"absent", "weight"}
    /\ Apply("FileBuilder.select_element", SelSelector,
             FileBuilder_select_element(selIn, SelSelector))

ApplySchemaProcessValues ==
    /\ selIn.kind = "values"
    /\ Apply("SchemaHandler.process_values", SelSelector,
             SchemaHandler_process_values(selIn.cands, SelSelector))

ApplyBuilderProcessValues ==
    /\ selIn.kind = "values"
    /\ LET r == FileBuilder_process_values(selIn.cands, selIn.g)
       IN  Apply("FileBuilder.process_values", r.selector, r.result)

NextSel ==
    \/ ApplySchemaFetchWeight
    \/ ApplyBuilderFetchWeight
    \/ ApplySchemaSelectElement
    \/ ApplyBuilderSelectElement
    \/ ApplySchemaProcessValues
    \/ ApplyBuilderProcessValues

SpecSel == InitSel /\ [][NextSel]_vars

-----------------------------------------------------------------------------
(* The product specification document                                      *)
(*                                                                         *)
(* TestSuite: [seed, count, suiteId, fixtures, policy, product]            *)
(*   fixtures:   sequence of Fixture [role, fixture]                       *)
(*   policy:     [props: Property list, quote, bind: has the child]      *)
(*   product:    [code, questionSets, coverables]                          *)
(*   Property:   [name, weight, values: list of Value [weight, text]]      *)
(*   QuestionSet:[code, questions: list of Question [code, answers]]       *)
(*   Coverable:  [name, select, weight, props, coverages]                  *)
(*   Coverage:   [code, weight, terms: list of CoverageTerm [code, terms]] *)

\* Python's None where the code returns it in place of a text; no text of a
\* document equals it
None == "None"

V(w, t) == [weight |-> w, text |-> t]
W(n) == Attr(IntChars(n))

AllRoles == <<"CreateSubmission", "AnswerQuestions", "UpdateDwelling",
              "CreateCoverages", "QuoteIssue">>

FixturesFor(roles) ==
    [i \in 1..Len(roles) |-> [role |-> roles[i], fixture |-> "fixtures." \o roles[i]]]

AccountNumberProp(w) ==
    [name |-> "AccountNumber", weight |-> w,
     values |-> <<V(W(50), "ACCT-1"), V(W(50), "ACCT-2")>>]

SubmissionDateProp(w) ==
    [name |-> "SubmissionDate", weight |-> w,
     values |-> <<V(NoAttr, "2021-01-15")>>]

RoofTypeProp(w) ==
    [name |-> "RoofType", weight |-> w,
     values |-> <<V(W(50), "Shingle"), V(W(50), "Tile")>>]

Questions ==
    <<[code |-> "Q1", answers |-> <<V(W(60), "yes"), V(W(40), "no")>>],
      [code |-> "Q2", answers |-> <<V(NoAttr, "none")>>]>>

CoverageA(w) ==
    [code |-> "CovA", weight |-> w,
     terms |-> <<[code |-> "Limit",
                  terms |-> <<V(W(30), "100000"), V(W(70), "300000")>>]>>]

Dwelling(wc, wp, wv) ==
    [name |-> "HOPDwelling", select |-> NoAttr, weight |-> wc,
     props |-> <<RoofTypeProp(wp)>>,
     coverages |-> <<CoverageA(wv)>>]

\* a structurally complete document
Document(count, quote, bind, policyProps, coverables) ==
    [seed |-> <<"4", "2">>, count |-> IntChars(count), suiteId |-> "HO",
     fixtures |-> FixturesFor(AllRoles),
     policy |-> [props |-> policyProps, quote |-> quote, bind |-> bind],
     product |-> [code |-> "Homeowners",
                  questionSets |-> <<[code |-> "QS1", questions |-> Questions]>>,
                  coverables |-> coverables]]

\* the weights tried on the optional elements of the documents
DocWeights == {NoAttr, W(50)}

\* a document with Count 1, a Quote marker and no weight attribute at all
PlainDocument ==
    Document(1, TRUE, FALSE, <<AccountNumberProp(NoAttr), SubmissionDateProp(NoAttr)>>,
             <<Dwelling(NoAttr, NoAttr, NoAttr)>>)

\* question sets: one without questions, one whose only Answer has weight 50,
\* and none at all
QuestionSetVariants ==
    {<<[code |-> "QS0", questions |-> <<>>],
       [code |-> "QS1", questions |-> Questions]>>,
     <<[code |-> "QS1", questions |-> Questions],
       [code |-> "QS2",
        questions |-> <<[code |-> "Q3", answers |-> <<V(W(50), "maybe")>>]>>]>>,
     <<>>}

\* a second coverable, selected and of weight 50, without properties
Garage ==
    [name |-> "Garage", select |-> Attr("select"), weight |-> W(50),
     props |-> <<>>, coverages |-> <<CoverageA(W(50))>>]

\* a coverage whose only CoverageTerm declares no Term
TermlessCoverage(w) ==
    [code |-> "CovT", weight |-> w,
     terms |-> <<[code |-> "Deductible", terms |-> <<>>]>>]

\* coverables: a created dwelling, a dwelling without coverages, a dwelling
\* with a CoverageTerm without terms, a dwelling followed by a garage, and a
\* dwelling of weight 50
CoverableVariants ==
    {<<[Dwelling(NoAttr, NoAttr, NoAttr) EXCEPT !.select = Attr("create")]>>,
     <<[Dwelling(NoAttr, NoAttr, NoAttr) EXCEPT !.coverages = <<>>]>>,
     <<Dwelling(NoAttr, NoAttr, NoAttr), Garage>>,
     <<Dwelling(W(50), NoAttr, NoAttr)>>}
    \cup {<<[Dwelling(NoAttr, NoAttr, NoAttr)
                EXCEPT !.coverages = <<CoverageA(NoAttr), TermlessCoverage(w)>>]>> :
             w \in DocWeights}

\* fixture lists: one role without a Fixture, two Fixtures for a role, and
\* no Fixture at all
FixtureVariants ==
    {[i \in 1..(Len(AllRoles) - 1) |->
         FixturesFor(AllRoles)[IF i < k THEN i ELSE i + 1]] : k \in DOMAIN AllRoles}
    \cup {<<[role |-> "QuoteIssue", fixture |-> "first.QuoteIssue"],
            [role |-> "CreateCoverages", fixture |-> "first.CreateCoverages"]>>
              \o FixturesFor(AllRoles),
            <<>>}

\* Policy blocks: an AccountNumber of weight 50, and an AccountNumber after a
\* SubmissionDate of weight 50
PolicyVariants ==
    {<<AccountNumberProp(W(50)), SubmissionDateProp(NoAttr)>>,
     <<SubmissionDateProp(W(50)), AccountNumberProp(NoAttr)>>}

VariantDocuments ==
    {[PlainDocument EXCEPT !.product.questionSets = qs] : qs \in QuestionSetVariants}
    \cup {[PlainDocument EXCEPT !.product.coverables = cs] : cs \in CoverableVariants}
    \cup {[PlainDocument EXCEPT !.fixtures = f] : f \in FixtureVariants}
    \cup {[PlainDocument EXCEPT !.policy.props = ps] : ps \in PolicyVariants}

\* the documents of the table specifications
Documents ==
    {Document(c, q, b, <<AccountNumberProp(NoAttr), SubmissionDateProp(wd)>>,
              <<Dwelling(NoAttr, wp, wv)>>) :
        c \in 1..MaxCount, q \in BOOLEAN, b \in BOOLEAN,
        wd \in DocWeights, wp \in DocWeights, wv \in {NoAttr}}
    \cup VariantDocuments

\* the dates the documents are processed on
Dates == {[year |-> 2021, month |-> 1, day |-> 2],
          [year |-> 2021, month |-> 11, day |-> 14]}

-----------------------------------------------------------------------------
(* dates.current_date                                                      *)

current_date(d) ==
    LET y == ToString(d.year) \o "-"
        m == IF d.month < 10 THEN "0" \o ToString(d.month) \o "-"
             ELSE ToString(d.month)
        dd == IF d.day < 10 THEN "0" \o ToString(d.day) ELSE ToString(d.day)
    IN  y \o m \o dd

-----------------------------------------------------------------------------
(* The state a table builder threads through its calls:                    *)
(*   rng, log:  ProductSpec._random and the draws logged from it           *)
(*   exc:       the exception under way, "none" while there is none        *)
(*   rows, row_number, coverage_count: the fields of the table object      *)

\* F applied to the value of v, which is computed once
Bind(v, F(_)) == F(v)

NewBuild(g) ==
    [rng |-> g, log |-> <<>>, exc |-> "none", rows |-> <<>>, role |-> "",
     row_number |-> -1, coverage_count |-> 0]

Fail(b, e) == [b EXCEPT !.exc = e]

\* the record a draw leaves in the log
Drawn(b, point, kind, val) ==
    [table |-> b.role, point |-> point, kind |-> kind, val |-> val]

\* SchemaHandler.random_selector, at the decision point `point`
random_selector(b, point, kind) ==
    Bind(Randint(b.rng), LAMBDA d :
        [b |-> [b EXCEPT !.rng = d.state,
                         !.log = Append(@, Drawn(b, point, kind, d.val))],
         val |-> d.val])

-----------------------------------------------------------------------------
(* SchemaHandler: properties and weighted children                         *)

NoProperty(b) == [b |-> b, name |-> None, value |-> None]

process_property(b, property_element, point) ==
    Bind(random_selector(b, point, "include"), LAMBDA d1 :
    Bind(SchemaHandler_select_element(property_element, d1.val), LAMBDA sel :
        IF Raised(sel) THEN NoProperty(Fail(d1.b, sel.exc))
        ELSE IF ~sel.val THEN NoProperty(d1.b)
        ELSE Bind(random_selector(d1.b, point, "value"), LAMBDA d2 :
             Bind(SchemaHandler_process_values(property_element.values, d2.val),
                  LAMBDA v :
                 IF Raised(v) THEN NoProperty(Fail(d2.b, v.exc))
                 ELSE [b |-> d2.b, name |-> property_element.name,
                       value |-> v.val]))))

PropertyPoint(parent, i) == parent \o "/Property[" \o ToString(i) \o "]"

RECURSIVE name_value_from(_, _, _, _, _)
name_value_from(b, property_elements, i, property_name, parent) ==
    IF i > Len(property_elements) THEN [b |-> b, val |-> None]
    ELSE Bind(process_property(b, property_elements[i], PropertyPoint(parent, i)),
              LAMBDA p :
             IF p.b.exc # "none" THEN [b |-> p.b, val |-> None]
             ELSE IF property_name = p.name THEN [b |-> p.b, val |-> p.value]
             ELSE name_value_from(p.b, property_elements, i + 1, property_name,
                                  parent))

fetch_property_name_value(b, parent_element, property_name, parent) ==
    name_value_from(b, parent_element.props, 1, property_name, parent)

\* the loop of fetch_property_headings (field "name") and of
\* fetch_property_values (field "value"): a property left out appends None
RECURSIVE property_list_from(_, _, _, _, _, _)
property_list_from(b, property_elements, i, field, acc, parent) ==
    IF i > Len(property_elements) THEN [b |-> b, val |-> acc]
    ELSE Bind(process_property(b, property_elements[i], PropertyPoint(parent, i)),
              LAMBDA p :
             IF p.b.exc # "none" THEN [b |-> p.b, val |-> acc]
             ELSE property_list_from(
                      p.b, property_elements, i + 1, field,
                      Append(acc, IF field = "name" THEN p.name ELSE p.value),
                      parent))

fetch_property_headings(b, parent_element, parent) ==
    property_list_from(b, parent_element.props, 1, "name", <<>>, parent)

fetch_property_values(b, parent_element, parent) ==
    property_list_from(b, parent_element.props, 1, "value", <<>>, parent)

\* fetch_selected_elements drawing only for the children that carry a weight
RECURSIVE Mutant_selected_from(_, _, _, _, _)
Mutant_selected_from(b, elements, i, acc, parent) ==
    IF i > Len(elements) THEN [b |-> b, val |-> acc]
    ELSE IF ~elements[i].weight.present
    THEN Mutant_selected_from(b, elements, i + 1, Append(acc, i), parent)
    ELSE Bind(random_selector(b, parent \o "[" \o ToString(i) \o "]", "include"),
              LAMBDA d :
         Bind(SchemaHandler_select_element(elements[i], d.val), LAMBDA sel :
             IF Raised(sel) THEN [b |-> Fail(d.b, sel.exc), val |-> acc]
             ELSE Mutant_selected_from(d.b, elements, i + 1,
                                       IF sel.val THEN Append(acc, i) ELSE acc,
                                       parent)))

\* fetch_selected_elements: the indices of the children selected by weight
RECURSIVE selected_from(_, _, _, _, _)
selected_from(b, elements, i, acc, parent) ==
    IF i > Len(elements) THEN [b |-> b, val |-> acc]
    ELSE Bind(random_selector(b, parent \o "[" \o ToString(i) \o "]", "include"),
              LAMBDA d :
         Bind(SchemaHandler_select_element(elements[i], d.val), LAMBDA sel :
             IF Raised(sel) THEN [b |-> Fail(d.b, sel.exc), val |-> acc]
             ELSE selected_from(d.b, elements, i + 1,
                                IF sel.val THEN Append(acc, i) ELSE acc, parent)))

fetch_selected_elements(b, elements, parent) ==
    selected_from(b, elements, 1, <<>>, parent)

\* fetch_fixture: the FixtureClass of the first Fixture with the role
RECURSIVE fixture_from(_, _, _)
fixture_from(fixtures, i, role) ==
    IF i > Len(fixtures) THEN None
    ELSE IF fixtures[i].role = role THEN fixtures[i].fixture
    ELSE fixture_from(fixtures, i + 1, role)

\* the fixtures property asserts that the list is not empty
fetch_fixture(d, role) ==
    IF Len(d.fixtures) = 0 THEN Raise("AssertionError")
    ELSE Ok(fixture_from(d.fixtures, 1, role))

-----------------------------------------------------------------------------
(* ProductSpec: the accessors of the policy and of the product             *)

account_number(b, d) ==
    Bind(fetch_property_name_value(b, d.policy, "AccountNumber", "Policy"),
         LAMBDA r :
        IF r.b.exc # "none" THEN r
        ELSE IF r.val = None THEN [b |-> Fail(r.b, "AssertionError"), val |-> None]
        ELSE r)

submission_date(b, d, date) ==
    Bind(fetch_property_name_value(b, d.policy, "SubmissionDate", "Policy"),
         LAMBDA r :
        IF r.b.exc # "none" THEN r
        ELSE IF r.val = None THEN [b |-> r.b, val |-> current_date(date)]
        ELSE r)

should_quote(d) == d.policy.quote \/ d.policy.bind

should_bind(d) == d.policy.bind

fetch_question_code_and_answer(b, question_element, point) ==
    Bind(random_selector(b, point, "value"), LAMBDA s :
    Bind(SchemaHandler_process_values(question_element.answers, s.val), LAMBDA v :
        IF Raised(v) THEN [b |-> Fail(s.b, v.exc), code |-> None, answer |-> None]
        ELSE [b |-> s.b, code |-> question_element.code, answer |-> v.val]))

fetch_coverables(b, d) ==
    fetch_selected_elements(b, d.product.coverables, "Coverable")

fetch_coverages(b, coverable_element, parent) ==
    fetch_selected_elements(b, coverable_element.coverages, parent \o "/Coverage")

\* fetch_coverage_term_value returning an empty value for a CoverageTerm
\* without Term elements
Mutant_fetch_coverage_term_value(b, cov_term_element, point) ==
    Bind(random_selector(b, point, "value"), LAMBDA s :
    Bind(SchemaHandler_process_values(cov_term_element.terms, s.val), LAMBDA v :
        IF Len(cov_term_element.terms) = 0 THEN [b |-> s.b, val |-> ""]
        ELSE IF Raised(v) THEN [b |-> Fail(s.b, v.exc), val |-> None]
        ELSE [b |-> s.b, val |-> v.val]))

fetch_coverage_term_value(b, cov_term_element, point) ==
    Bind(random_selector(b, point, "value"), LAMBDA s :
    Bind(SchemaHandler_process_values(cov_term_element.terms, s.val), LAMBDA v :
        IF Raised(v) THEN [b |-> Fail(s.b, v.exc), val |-> None]
        ELSE [b |-> s.b, val |-> v.val]))

-----------------------------------------------------------------------------
(* TestTable: identifiers and rows                                         *)

\* FileBuilder.test_case_number: the number as a string of 4 digits
RECURSIVE PadTo4(_)
PadTo4(value) == IF Len(value) < 4 THEN PadTo4("0" \o value) ELSE value

\* the test case number without its leading zeros
Mutant_test_case_number(n) == ToString(n)

test_case_number(n) == PadTo4(ToString(n))

public_id(d, t, tcn) == d.suiteId \o "-" \o tcn \o "-" \o t.abbrev

test_id(d, t, tcn) == "TEST-" \o public_id(d, t, tcn)

submission_id(tcn) == "SUBMISSION-" \o tcn

\* the is_unique argument of add_row: None, or a list of booleans
NoFlags == [none |-> TRUE, list |-> <<>>]
Flags(l) == [none |-> FALSE, list |-> l]

\* add_row marking every cell as soon as a flag list is given
Mutant_add_row(b, values, is_unique) ==
    IF b.exc # "none" THEN b
    ELSE IF Len(values) = 0 THEN Fail(b, "AssertionError")
    ELSE IF ~is_unique.none /\ Len(values) # Len(is_unique.list)
    THEN Fail(b, "AssertionError")
    ELSE [b EXCEPT !.rows =
             Append(@, [cells |-> values,
                        unique |-> [i \in 1..Len(values) |-> ~is_unique.none]])]

\* TestTable.add_row
add_row(b, values, is_unique) ==
    IF b.exc # "none" THEN b
    ELSE IF Len(values) = 0 THEN Fail(b, "AssertionError")
    ELSE IF ~is_unique.none /\ Len(values) # Len(is_unique.list)
    THEN Fail(b, "AssertionError")
    ELSE [b EXCEPT !.rows =
             Append(@, [cells |-> values,
                        unique |-> [i \in 1..Len(values) |->
                                       ~is_unique.none /\ is_unique.list[i]]])]

\* ColumnTestTable.add_row
column_add_row(b, values, is_unique) ==
    Bind(add_row(b, values, is_unique), LAMBDA r :
        IF r.exc # "none" THEN r ELSE [r EXCEPT !.row_number = @ + 1])

\* self.add_row, dispatched on the class of the table
self_add_row(b, t, values, is_unique) ==
    IF t.column THEN column_add_row(b, values, is_unique)
    ELSE add_row(b, values, is_unique)

add_fixture(b, t) == self_add_row(b, t, <<t.fixture>>, NoFlags)

-----------------------------------------------------------------------------
(* The five table classes and their constructors                           *)

TableClasses ==
    <<[title |-> "Create Submission", role |-> "CreateSubmission",
       abbrev |-> "CS", column |-> TRUE, fixture |-> None,
       headings |-> <<"TestId", "Submission ID", "Account Number",
                      "Submission Date", "Valid()">>,
       is_unique |-> <<FALSE, TRUE, FALSE, FALSE, FALSE>>],
      [title |-> "Create Answers to Pre-Qualificaton Questions",
       role |-> "AnswerQuestions", abbrev |-> "AQ", column |-> TRUE,
       fixture |-> None,
       headings |-> <<"TestId", "Submission ID", "Question Set Code",
                      "Question Code", "Answer", "Valid()">>,
       is_unique |-> <<FALSE, TRUE, FALSE, FALSE, FALSE, FALSE>>],
      [title |-> "Update Dwelling", role |-> "UpdateDwelling",
       abbrev |-> "UD", column |-> TRUE, fixture |-> None,
       headings |-> <<"TestId", "Submission ID">>,
       is_unique |-> <<FALSE, TRUE>>],
      [title |-> "Create Coverages", role |-> "CreateCoverages",
       abbrev |-> "CC", column |-> FALSE, fixture |-> None,
       headings |-> <<>>, is_unique |-> <<>>],
      [title |-> "Quote and Issue", role |-> "QuoteIssue",
       abbrev |-> "QI", column |-> TRUE, fixture |-> None,
       headings |-> <<"TestId", "Submission ID", "Quote()", "Issue()">>,
       is_unique |-> <<FALSE, TRUE, FALSE, FALSE>>]>>

\* __init__ of a table class without the assertion of the fixture setter
Mutant_NewTable(d, class) ==
    Bind(fetch_fixture(d, class.role), LAMBDA f :
        IF Raised(f) THEN f
        ELSE Ok([class EXCEPT !.fixture = f.val]))

\* __init__ of a table class: the fixture setter asserts it is not None
\* __init__ of a table class: the fixture setter asserts it is not None
NewTable(d, class) ==
    Bind(fetch_fixture(d, class.role), LAMBDA f :
        IF Raised(f) THEN f
        ELSE IF f.val = None THEN Raise("AssertionError")
        ELSE Ok([class EXCEPT !.fixture = f.val]))

\* the list `tables` constructed right to left
RECURSIVE Mutant_construct_from(_, _, _)
Mutant_construct_from(d, i, acc) ==
    IF i > Len(TableClasses) THEN Ok(acc)
    ELSE Bind(NewTable(d, TableClasses[i]), LAMBDA t :
             IF Raised(t) THEN t
             ELSE Mutant_construct_from(d, i + 1, <<t.val>> \o acc))

\* the list `tables` of create_test_tables, constructed left to right
RECURSIVE construct_from(_, _, _)
construct_from(d, i, acc) ==
    IF i > Len(TableClasses) THEN Ok(acc)
    ELSE Bind(NewTable(d, TableClasses[i]), LAMBDA t :
             IF Raised(t) THEN t ELSE construct_from(d, i + 1, Append(acc, t.val)))

\* add_fixture followed by add_row(headings, is_unique)
fixture_and_headings(b, t, headings, is_unique) ==
    self_add_row(add_fixture(b, t), t, headings, Flags(is_unique))

-----------------------------------------------------------------------------
(* CreateSubmissionTestTable                                               *)

CreateSubmission_create_values(b, d, t, tcn, date) ==
    Bind(account_number(b, d), LAMBDA acct :
        IF acct.b.exc # "none" THEN [b |-> acct.b, val |-> <<>>]
        ELSE Bind(submission_date(acct.b, d, date), LAMBDA sdate :
                 [b |-> sdate.b,
                  val |-> <<test_id(d, t, tcn) \o "-" \o ToString(b.row_number),
                            submission_id(tcn), acct.val, sdate.val, "true">>]))

CreateSubmission_create_test_table(b, d, t, tcn, date) ==
    Bind(fixture_and_headings(b, t, t.headings, t.is_unique), LAMBDA b2 :
        IF b2.exc # "none" THEN b2
        ELSE Bind(CreateSubmission_create_values(b2, d, t, tcn, date), LAMBDA v :
                 self_add_row(v.b, t, v.val, NoFlags)))

-----------------------------------------------------------------------------
(* AnswerQuestionsTestTable                                                *)

AnswerQuestions_create_values(b, d, t, tcn, question_set_code, question, point) ==
    Bind(fetch_question_code_and_answer(b, question, point), LAMBDA qa :
        [b |-> qa.b,
         val |-> <<test_id(d, t, tcn) \o "-" \o ToString(b.row_number),
                   submission_id(tcn), question_set_code, qa.code, qa.answer,
                   "true">>])

RECURSIVE AnswerQuestions_questions_from(_, _, _, _, _, _, _)
AnswerQuestions_questions_from(b, d, t, tcn, qs, j, point) ==
    IF b.exc # "none" \/ j > Len(qs.questions) THEN b
    ELSE Bind(AnswerQuestions_create_values(
                  b, d, t, tcn, qs.code, qs.questions[j],
                  point \o "/Question[" \o ToString(j) \o "]"), LAMBDA v :
             AnswerQuestions_questions_from(
                 self_add_row(v.b, t, v.val, NoFlags), d, t, tcn, qs, j + 1, point))

AnswerQuestions_process_question_set(b, d, t, tcn, qs, point) ==
    AnswerQuestions_questions_from(b, d, t, tcn, qs, 1, point)

\* create_rows stopping after the first question set
Mutant_sets_from(b, d, t, tcn, i) ==
    IF b.exc # "none" \/ i > 1 \/ i > Len(d.product.questionSets) THEN b
    ELSE AnswerQuestions_process_question_set(
             b, d, t, tcn, d.product.questionSets[i],
             "QuestionSet[" \o ToString(i) \o "]")

RECURSIVE AnswerQuestions_sets_from(_, _, _, _, _)
AnswerQuestions_sets_from(b, d, t, tcn, i) ==
    IF b.exc # "none" \/ i > Len(d.product.questionSets) THEN b
    ELSE AnswerQuestions_sets_from(
             AnswerQuestions_process_question_set(
                 b, d, t, tcn, d.product.questionSets[i],
                 "QuestionSet[" \o ToString(i) \o "]"),
             d, t, tcn, i + 1)

AnswerQuestions_create_rows(b, d, t, tcn) ==
    AnswerQuestions_sets_from(b, d, t, tcn, 1)

AnswerQuestions_create_test_table(b, d, t, tcn) ==
    AnswerQuestions_create_rows(
        fixture_and_headings(b, t, t.headings, t.is_unique), d, t, tcn)

-----------------------------------------------------------------------------
(* UpdateDwellingTestTable                                                 *)

\* fetch_dwelling: the index of the first Coverable named HOPDwelling, 0 for
\* None
RECURSIVE dwelling_from(_, _)
dwelling_from(coverables, i) ==
    IF i > Len(coverables) THEN 0
    ELSE IF coverables[i].name = "HOPDwelling" THEN i
    ELSE dwelling_from(coverables, i + 1)

fetch_dwelling(d) == dwelling_from(d.product.coverables, 1)

CoverablePoint(k) == "Coverable[" \o ToString(k) \o "]"

\* update_headings: the headings and the is_unique list it leaves
UpdateDwelling_update_headings(b, d, t) ==
    IF b.exc # "none"
    THEN [b |-> b, headings |-> t.headings, is_unique |-> t.is_unique]
    ELSE IF fetch_dwelling(d) = 0
    THEN [b |-> Fail(b, "AssertionError"), headings |-> t.headings,
          is_unique |-> t.is_unique]
    ELSE Bind(fetch_property_headings(b, d.product.coverables[fetch_dwelling(d)],
                                      CoverablePoint(fetch_dwelling(d))),
              LAMBDA h :
             [b |-> h.b,
              headings |-> t.headings \o h.val \o <<"Valid()">>,
              is_unique |-> t.is_unique \o [i \in 1..(Len(h.val) + 1) |-> FALSE]])

UpdateDwelling_create_row(b, d, t, tcn) ==
    IF b.exc # "none" THEN b
    ELSE IF fetch_dwelling(d) = 0 THEN Fail(b, "AssertionError")
    ELSE Bind(fetch_property_values(b, d.product.coverables[fetch_dwelling(d)],
                                    CoverablePoint(fetch_dwelling(d))),
              LAMBDA v :
             self_add_row(v.b, t,
                          <<test_id(d, t, tcn), submission_id(tcn)>>
                              \o v.val \o <<"true">>,
                          NoFlags))

UpdateDwelling_create_test_table(b, d, t, tcn) ==
    Bind(UpdateDwelling_update_headings(add_fixture(b, t), d, t), LAMBDA h :
        UpdateDwelling_create_row(
            self_add_row(h.b, t, h.headings, Flags(h.is_unique)), d, t, tcn))

-----------------------------------------------------------------------------
(* QuiteIssueTestTable                                                     *)

QuoteIssue_create_row(b, d, t, tcn) ==
    self_add_row(b, t, <<test_id(d, t, tcn), submission_id(tcn), "true", "true">>,
                 NoFlags)

QuoteIssue_create_test_table(b, d, t, tcn) ==
    QuoteIssue_create_row(
        fixture_and_headings(b, t, t.headings, t.is_unique), d, t, tcn)

-----------------------------------------------------------------------------
(* ActionTestTable and CreateCoveragesTestTable                            *)

set_property(b, property_name, property_value, unique) ==
    IF b.exc # "none" THEN b
    ELSE IF property_name = None \/ Len(property_name) = 0
            \/ property_value = None \/ Len(property_value) = 0
    THEN Fail(b, "AssertionError")
    ELSE add_row(b, <<"set", property_name, property_value, "">>,
                 Flags(<<unique, FALSE, FALSE, FALSE>>))

select_submission(b, tcn) ==
    add_row(b, <<"select", "submission", submission_id(tcn), "">>,
            Flags(<<TRUE, FALSE, FALSE, FALSE>>))

select_coverable(b, coverable_name) ==
    IF b.exc # "none" THEN b
    ELSE IF coverable_name = None \/ Len(coverable_name) = 0
    THEN Fail(b, "AssertionError")
    ELSE add_row(b, <<"select", "coverable", coverable_name, "">>, NoFlags)

create_coverage(b, d, t, tcn, coverage_code, coverage_count) ==
    IF b.exc # "none" THEN b
    ELSE IF coverage_code = None \/ Len(coverage_code) = 0
    THEN Fail(b, "AssertionError")
    ELSE add_row(b, <<"create", "coverage",
                      test_id(d, t, tcn) \o "-" \o ToString(coverage_count),
                      coverage_code>>, NoFlags)

add_with(b, coverage_term_code, term_value) ==
    add_row(b, <<"with", coverage_term_code, term_value, "">>, NoFlags)

commit(b) == add_row(b, <<"commit", "", "", "">>, NoFlags)

process_coverage_term(b, cov_term_element, point) ==
    IF b.exc # "none" THEN b
    ELSE Bind(fetch_coverage_term_value(b, cov_term_element, point), LAMBDA v :
             IF v.b.exc # "none" THEN v.b
             ELSE IF v.val = None \/ Len(v.val) = 0
             THEN Fail(v.b, "AssertionError")
             ELSE add_with(v.b, cov_term_element.code, v.val))

RECURSIVE coverage_terms_from(_, _, _, _)
coverage_terms_from(b, cov_term_elements, i, point) ==
    IF b.exc # "none" \/ i > Len(cov_term_elements) THEN b
    ELSE coverage_terms_from(
             process_coverage_term(b, cov_term_elements[i],
                 point \o "/CoverageTerm[" \o ToString(i) \o "]"),
             cov_term_elements, i + 1, point)

\* process_coverage committing every coverage
Mutant_process_coverage(b, d, t, tcn, coverage_element, point) ==
    IF b.exc # "none" THEN b
    ELSE Bind([b EXCEPT !.coverage_count = @ + 1], LAMBDA b1 :
             commit(coverage_terms_from(
                        create_coverage(b1, d, t, tcn, coverage_element.code,
                                        b1.coverage_count),
                        coverage_element.terms, 1, point)))

process_coverage(b, d, t, tcn, coverage_element, point) ==
    IF b.exc # "none" THEN b
    ELSE Bind([b EXCEPT !.coverage_count = @ + 1], LAMBDA b1 :
             coverage_terms_from(
                 create_coverage(b1, d, t, tcn, coverage_element.code,
                                 b1.coverage_count),
                 coverage_element.terms, 1, point))

RECURSIVE coverages_from(_, _, _, _, _, _, _, _)
coverages_from(b, d, t, tcn, coverage_elements, selected, i, parent) ==
    IF b.exc # "none" \/ i > Len(selected) THEN b
    ELSE coverages_from(
             process_coverage(b, d, t, tcn, coverage_elements[selected[i]],
                 parent \o "/Coverage[" \o ToString(selected[i]) \o "]"),
             d, t, tcn, coverage_elements, selected, i + 1, parent)

process_coverables(b, d, t, tcn, coverable_element, parent) ==
    IF b.exc # "none" THEN b
    ELSE Bind(select_coverable(b, coverable_element.name), LAMBDA b1 :
             IF b1.exc # "none" THEN b1
             ELSE Bind(fetch_coverages(b1, coverable_element, parent), LAMBDA c :
                      IF c.b.exc # "none" THEN c.b
                      ELSE IF Len(c.val) = 0 THEN Fail(c.b, "AssertionError")
                      ELSE coverages_from(c.b, d, t, tcn,
                                          coverable_element.coverages, c.val, 1,
                                          parent)))

RECURSIVE coverables_from(_, _, _, _, _, _)
coverables_from(b, d, t, tcn, selected, i) ==
    IF b.exc # "none" \/ i > Len(selected) THEN b
    ELSE coverables_from(
             process_coverables(b, d, t, tcn, d.product.coverables[selected[i]],
                                CoverablePoint(selected[i])),
             d, t, tcn, selected, i + 1)

\* the rows up to the traversal of the coverables
CreateCoverages_first_rows(b, d, t, tcn) ==
    Bind(select_submission(
             set_property(add_fixture(b, t), "TestId", test_id(d, t, tcn), FALSE),
             tcn),
         LAMBDA b3 : [b3 EXCEPT !.coverage_count = 0])

CreateCoverages_create_test_table(b, d, t, tcn) ==
    Bind(CreateCoverages_first_rows(b, d, t, tcn), LAMBDA b4 :
        IF b4.exc # "none" THEN b4
        ELSE Bind(fetch_coverables(b4, d), LAMBDA c :
                 IF c.b.exc # "none" THEN c.b
                 ELSE IF Len(c.val) = 0 THEN Fail(c.b, "AssertionError")
                 ELSE commit(coverables_from(c.b, d, t, tcn, c.val, 1))))

-----------------------------------------------------------------------------
(* create_test_tables, scenario by scenario                                *)

\* the table element and the H2 heading appended to the body
H2(title) == [tag |-> "h2", text |-> title, rows |-> <<>>]
TableElement(rows) == [tag |-> "table", text |-> "", rows |-> rows]

\* the count accessor on a document whose Count is a number
Count(d) == PyInt(d.count).val

Finished(r) ==
    \/ tpc[r].at \in {"failed", "off"}
    \/ tpc[r].at = "start" /\ scen[r] >= Count(doc)

\* one run at a time: the second run begins when the first has ended
Turn(r) == \A q \in Runs : q < r => Finished(q)

\* the caller of create_test_tables: the next scenario gets an empty body
StartScenario(r) ==
    /\ Turn(r)
    /\ tpc[r].at = "start"
    /\ scen[r] < Count(doc)
    /\ scen' = [scen EXCEPT ![r] = @ + 1]
    /\ body' = [body EXCEPT ![r] = <<>>]
    /\ tables' = [tables EXCEPT ![r] = <<>>]
    /\ drawLog' = [drawLog EXCEPT ![r] = <<>>]
    /\ tpc' = [tpc EXCEPT ![r] = [at |-> "construct", i |-> 0, exc |-> "none"]]
    /\ UNCHANGED <<doc, today, mainVars, selVars, prng, suite>>

\* create_test_tables: the five constructors
ConstructTables(r) ==
    /\ tpc[r].at = "construct"
    /\ LET c == construct_from(doc, 1, <<>>)
       IN  IF Raised(c)
           THEN /\ tpc' = [tpc EXCEPT ![r] = [at |-> "failed", i |-> 0,
                                              exc |-> c.exc]]
                /\ UNCHANGED tables
           ELSE /\ tpc' = [tpc EXCEPT ![r] = [at |-> "format", i |-> 1,
                                              exc |-> "none"]]
                /\ tables' = [tables EXCEPT ![r] = c.val]
    /\ UNCHANGED <<doc, today, mainVars, selVars, prng, scen, body, drawLog, suite>>

\* format_test_table for the i-th table, whose create_test_table left b
FormatTable(r, i, b) ==
    LET t == tables[r][i]
        appended == IF b.exc = "none"
                    THEN <<H2(t.title), TableElement(b.rows)>>
                    ELSE <<H2(t.title)>>
    IN  /\ body' = [body EXCEPT ![r] = @ \o appended]
        /\ prng' = [prng EXCEPT ![r] = b.rng]
        /\ drawLog' = [drawLog EXCEPT ![r] = @ \o b.log]
        /\ IF b.exc # "none"
           THEN /\ tpc' = [tpc EXCEPT ![r] = [at |-> "failed", i |-> i,
                                              exc |-> b.exc]]
                /\ UNCHANGED suite
           ELSE IF i < Len(tables[r])
           THEN /\ tpc' = [tpc EXCEPT ![r] = [at |-> "format", i |-> i + 1,
                                              exc |-> "none"]]
                /\ UNCHANGED suite
           ELSE /\ tpc' = [tpc EXCEPT ![r] = [at |-> "start", i |-> 0,
                                              exc |-> "none"]]
                /\ suite' = [suite EXCEPT ![r] = Append(@, body'[r])]
        /\ UNCHANGED <<doc, today, mainVars, selVars, scen, tables>>

At(r, role) ==
    /\ tpc[r].at = "format"
    /\ tables[r][tpc[r].i].role = role

Build(r, role) == [NewBuild(prng[r]) EXCEPT !.role = role]

CreateSubmissionTable(r) ==
    /\ At(r, "CreateSubmission")
    /\ FormatTable(r, tpc[r].i,
           CreateSubmission_create_test_table(
               Build(r, "CreateSubmission"), doc, tables[r][tpc[r].i],
               test_case_number(scen[r]), today))

AnswerQuestionsTable(r) ==
    /\ At(r, "AnswerQuestions")
    /\ FormatTable(r, tpc[r].i,
           AnswerQuestions_create_test_table(
               Build(r, "AnswerQuestions"), doc, tables[r][tpc[r].i],
               test_case_number(scen[r])))

UpdateDwellingTable(r) ==
    /\ At(r, "UpdateDwelling")
    /\ FormatTable(r, tpc[r].i,
           UpdateDwelling_create_test_table(
               Build(r, "UpdateDwelling"), doc, tables[r][tpc[r].i],
               test_case_number(scen[r])))

CreateCoveragesTable(r) ==
    /\ At(r, "CreateCoverages")
    /\ FormatTable(r, tpc[r].i,
           CreateCoverages_create_test_table(
               Build(r, "CreateCoverages"), doc, tables[r][tpc[r].i],
               test_case_number(scen[r])))

QuoteIssueTable(r) ==
    /\ At(r, "QuoteIssue")
    /\ FormatTable(r, tpc[r].i,
           QuoteIssue_create_test_table(
               Build(r, "QuoteIssue"), doc, tables[r][tpc[r].i],
               test_case_number(scen[r])))

NextTables ==
    \E r \in Runs :
        \/ StartScenario(r)
        \/ ConstructTables(r)
        \/ CreateSubmissionTable(r)
        \/ AnswerQuestionsTable(r)
        \/ UpdateDwellingTable(r)
        \/ CreateCoveragesTable(r)
        \/ QuoteIssueTable(r)

RunStart == [at |-> "start", i |-> 0, exc |-> "none"]
RunOff == [at |-> "off", i |-> 0, exc |-> "none"]

\* one run of the table builders: the generator of the ProductSpec is created
\* without a seed
InitTables ==
    /\ doc \in Documents
    /\ today \in Dates
    /\ MainIdle /\ SelIdle
    /\ prng \in {[r \in Runs |-> IF r = 1 THEN g ELSE 0] : g \in EntropyStates}
    /\ tpc = [r \in Runs |-> IF r = 1 THEN RunStart ELSE RunOff]
    /\ scen = [r \in Runs |-> 0]
    /\ body = [r \in Runs |-> <<>>]
    /\ tables = [r \in Runs |-> <<>>]
    /\ drawLog = [r \in Runs |-> <<>>]
    /\ suite = [r \in Runs |-> <<>>]

SpecTables == InitTables /\ [][NextTables]_vars

\* the entropy states tried on two runs: runs that start alike and runs that
\* start apart
RunEntropyStates == {0, 1, 2, 50}

\* two independent runs on the same document and date, each with a ProductSpec
\* of its own
InitRuns ==
    /\ doc \in Documents
    /\ today \in Dates
    /\ MainIdle /\ SelIdle
    /\ prng \in [Runs -> RunEntropyStates]
    /\ tpc = [r \in Runs |-> RunStart]
    /\ scen = [r \in Runs |-> 0]
    /\ body = [r \in Runs |-> <<>>]
    /\ tables = [r \in Runs |-> <<>>]
    /\ drawLog = [r \in Runs |-> <<>>]
    /\ suite = [r \in Runs |-> <<>>]

SpecRuns == InitRuns /\ [][NextTables]_vars

-----------------------------------------------------------------------------
(* FileBuilder: the rows of one test case                                  *)
(*                                                                         *)
(* The state threaded through its calls: rng is the generator of module    *)
(* `random`, rows the table of the TestCase, exc the exception under way.  *)

NewTestCase(g) == [rng |-> g, exc |-> "none", rows |-> <<>>]

\* the attributes of a ProductSpec object: the methods and properties of
\* XmlHandler, SchemaHandler and ProductSpec and the fields their __init__ set
ProductSpecAttributes ==
    {"__init__", "fetch_element", "fetch_text", "fetch_all_elements",
     "has_element", "spec_file_name", "count", "suite_name", "suite_id",
     "project", "author", "description", "fixtures", "root_element", "seed",
     "random_selector", "parse", "file_exists", "fetch_fixture",
     "fetch_property_name_value", "fetch_property_headings",
     "fetch_property_values", "process_property", "select_element",
     "fetch_weight", "process_values", "fetch_selected_elements",
     "_spec_file_name", "_root", "_count", "_suite_name", "_suite_id",
     "_project", "_author", "_description", "_seed", "_fixtures", "_random",
     "product_name", "account_number", "submission_date", "should_quote",
     "quote_element", "should_bind", "fetch_question_sets",
     "fetch_question_set_code", "fetch_questions",
     "fetch_question_code_and_answer", "fetch_coverables", "fetch_coverages",
     "fetch_coverage_code", "fetch_coverage_terms",
     "fetch_coverage_term_value", "_product_name"}

\* the attributes of a TestCase object
TestCaseAttributes ==
    {"__init__", "title", "project", "author", "description", "table",
     "initialize", "create_html", "create_head", "create_style", "create_body",
     "create_test_description", "create_dl_dt", "create_table", "add_row",
     "prettify", "dump", "output", "_filename", "_html", "_title", "_project",
     "_author", "_description", "_table"}

\* object.name: the attribute, or AttributeError when the object has none of
\* that name
GetAttribute(attributes, name) ==
    IF name \in attributes THEN Ok(name) ELSE Raise("AttributeError")

\* TestCase.add_row: between 1 and 5 values
TestCase_add_row(b, values) ==
    IF b.exc # "none" THEN b
    ELSE IF Len(values) = 0 \/ Len(values) >= 6 THEN Fail(b, "AssertionError")
    ELSE [b EXCEPT !.rows = Append(@, values)]

FileBuilder_test_id(d, tcn) == "TEST-" \o d.suiteId \o "-" \o tcn

FileBuilder_public_id(d, tcn) == d.suiteId \o "-" \o tcn

\* add_set_value: with an attrib it calls TestCase.add_row_attrib, which
\* TestCase does not define
add_set_value(b, prop, value, attrib) ==
    IF b.exc # "none" THEN b
    ELSE IF attrib = None THEN TestCase_add_row(b, <<"set", prop, "to", value, "">>)
    ELSE Bind(GetAttribute(TestCaseAttributes, "add_row_attrib"), LAMBDA f :
             IF Raised(f) THEN Fail(b, f.exc)
             ELSE TestCase_add_row(b, <<"set", prop, "to", value, "">>))

add_create_policy(b) == TestCase_add_row(b, <<"create", "policy">>)

add_check_property(b, prop, value) ==
    TestCase_add_row(b, <<"check", prop, "as", value>>)

add_command(b, command) == TestCase_add_row(b, <<command>>)

add_question(b, question_set_code, question_code, answer) ==
    TestCase_add_row(b, <<"answer", question_set_code, question_code, answer>>)

add_set_select_value(b, prop, value) ==
    TestCase_add_row(b, <<"set_select", prop, "as", value>>)

add_create_coverable(b, coverable_name) ==
    TestCase_add_row(b, <<"create", coverable_name>>)

add_select_coverable(b, coverable_name) ==
    TestCase_add_row(b, <<"select", coverable_name>>)

add_commit(b, entity) ==
    IF b.exc # "none" THEN b
    ELSE IF entity \notin {"coverable", "coverage"} THEN Fail(b, "AssertionError")
    ELSE TestCase_add_row(b, <<"commit", entity>>)

add_create_coverage(b, coverage_code, coverable_name) ==
    TestCase_add_row(b, <<"create", "coverage", coverage_code, "on",
                          coverable_name>>)

FileBuilder_add_with(b, coverage_term_code, value) ==
    TestCase_add_row(b, <<"with", coverage_term_code, "to", value>>)

\* FileBuilder.random_selector: a draw of the generator of module `random`
FileBuilder_random_selector(b) ==
    Bind(Randint(b.rng), LAMBDA d : [b |-> [b EXCEPT !.rng = d.state],
                                     val |-> d.val])

\* self.process_values(element, name, tag): the value and the state it leaves
FileBuilder_value(b, value_elements) ==
    Bind(FileBuilder_process_values(value_elements, b.rng), LAMBDA v :
        IF Raised(v.result)
        THEN [b |-> Fail([b EXCEPT !.rng = v.state], v.result.exc), val |-> None]
        ELSE [b |-> [b EXCEPT !.rng = v.state], val |-> v.result.val])

\* the draw of a weighted element and the decision select_element takes on it
FileBuilder_selected(b, element) ==
    Bind(FileBuilder_random_selector(b), LAMBDA s :
    Bind(FileBuilder_select_element(element, s.val), LAMBDA sel :
        IF Raised(sel) THEN [b |-> Fail(s.b, sel.exc), val |-> FALSE]
        ELSE [b |-> s.b, val |-> sel.val]))

\* process_property (set rows) and process_coverable_property (set_select rows)
FileBuilder_property(b, property_element, coverable) ==
    IF b.exc # "none" THEN b
    ELSE Bind(FileBuilder_selected(b, property_element), LAMBDA s :
             IF s.b.exc # "none" \/ ~s.val THEN s.b
             ELSE Bind(FileBuilder_value(s.b, property_element.values), LAMBDA v :
                      IF v.b.exc # "none" THEN v.b
                      ELSE IF coverable
                      THEN add_set_select_value(v.b, property_element.name, v.val)
                      ELSE add_set_value(v.b, property_element.name, v.val, None)))

FileBuilder_process_property(b, property_element) ==
    FileBuilder_property(b, property_element, FALSE)

process_coverable_property(b, property_element) ==
    FileBuilder_property(b, property_element, TRUE)

RECURSIVE properties_from(_, _, _, _)
properties_from(b, property_elements, i, coverable) ==
    IF b.exc # "none" \/ i > Len(property_elements) THEN b
    ELSE properties_from(FileBuilder_property(b, property_elements[i], coverable),
                         property_elements, i + 1, coverable)

\* the first statement of process_policy: add_command(product_spec.fixture)
add_fixture_command(b) ==
    Bind(GetAttribute(ProductSpecAttributes, "fixture"), LAMBDA f :
        IF Raised(f) THEN Fail(b, f.exc) ELSE add_command(b, f.val))

process_policy(b, d, tcn) ==
    add_check_property(
      add_command(
        add_check_property(
          add_create_policy(
            properties_from(
              add_set_value(
                add_set_value(
                  add_set_value(
                    add_set_value(add_fixture_command(b),
                      "Test Id", FileBuilder_test_id(d, tcn), None),
                    "PublicID", FileBuilder_public_id(d, tcn), "unique"),
                  "Quote Type", "Full", None),
                "Product Code", d.product.code, None),
              d.policy.props, 1, FALSE)),
          "Status", "New"),
        "edit"),
      "Status", "Draft")

process_question(b, question_element, question_set_code) ==
    IF b.exc # "none" THEN b
    ELSE Bind(FileBuilder_value(b, question_element.answers), LAMBDA v :
             IF v.b.exc # "none" THEN v.b
             ELSE add_question(v.b, question_set_code, question_element.code,
                               v.val))

RECURSIVE questions_from(_, _, _)
questions_from(b, qs, j) ==
    IF b.exc # "none" \/ j > Len(qs.questions) THEN b
    ELSE questions_from(process_question(b, qs.questions[j], qs.code), qs, j + 1)

FileBuilder_process_question_set(b, qs) ==
    IF b.exc # "none" THEN b
    ELSE IF Len(qs.questions) = 0 THEN Fail(b, "SuiteDreamsException")
    ELSE questions_from(b, qs, 1)

RECURSIVE process_question_sets(_, _, _)
process_question_sets(b, question_set_elements, i) ==
    IF b.exc # "none" \/ i > Len(question_set_elements) THEN b
    ELSE process_question_sets(
             FileBuilder_process_question_set(b, question_set_elements[i]),
             question_set_elements, i + 1)

is_coverable_created(coverable_element) ==
    IF ~coverable_element.select.present THEN Ok(FALSE)
    ELSE IF coverable_element.select.text = "create" THEN Ok(TRUE)
    ELSE IF coverable_element.select.text = "select" THEN Ok(FALSE)
    ELSE Raise("SuiteDreamsException")

FileBuilder_process_coverage_term(b, coverage_term_element) ==
    IF b.exc # "none" THEN b
    ELSE IF Len(coverage_term_element.terms) = 0
    THEN Fail(b, "SuiteDreamsException")
    ELSE Bind(FileBuilder_value(b, coverage_term_element.terms), LAMBDA v :
             IF v.b.exc # "none" THEN v.b
             ELSE FileBuilder_add_with(v.b, coverage_term_element.code, v.val))

RECURSIVE FileBuilder_terms_from(_, _, _)
FileBuilder_terms_from(b, coverage_term_elements, i) ==
    IF b.exc # "none" \/ i > Len(coverage_term_elements) THEN b
    ELSE FileBuilder_terms_from(
             FileBuilder_process_coverage_term(b, coverage_term_elements[i]),
             coverage_term_elements, i + 1)

\* process_coverage leaving the coverage uncommitted
Mutant_FileBuilder_process_coverage(b, coverage_element, coverable_name) ==
    IF b.exc # "none" THEN b
    ELSE Bind(FileBuilder_selected(b, coverage_element), LAMBDA s :
             IF s.b.exc # "none" \/ ~s.val THEN s.b
             ELSE FileBuilder_terms_from(
                      add_create_coverage(s.b, coverage_element.code,
                                          coverable_name),
                      coverage_element.terms, 1))

FileBuilder_process_coverage(b, coverage_element, coverable_name) ==
    IF b.exc # "none" THEN b
    ELSE Bind(FileBuilder_selected(b, coverage_element), LAMBDA s :
             IF s.b.exc # "none" \/ ~s.val THEN s.b
             ELSE add_commit(
                      FileBuilder_terms_from(
                          add_create_coverage(s.b, coverage_element.code,
                                              coverable_name),
                          coverage_element.terms, 1),
                      "coverage"))

RECURSIVE FileBuilder_coverages_from(_, _, _, _)
FileBuilder_coverages_from(b, coverage_elements, i, coverable_name) ==
    IF b.exc # "none" \/ i > Len(coverage_elements) THEN b
    ELSE FileBuilder_coverages_from(
             FileBuilder_process_coverage(b, coverage_elements[i], coverable_name),
             coverage_elements, i + 1, coverable_name)

\* the rows of the properties of a coverable, bracketed by its command row
\* and `commit coverable`
coverable_rows(b, coverable_element) ==
    IF Len(coverable_element.props) = 0 THEN b
    ELSE Bind(is_coverable_created(coverable_element), LAMBDA created :
             IF Raised(created) THEN Fail(b, created.exc)
             ELSE add_commit(
                      properties_from(
                          IF created.val
                          THEN add_create_coverable(b, coverable_element.name)
                          ELSE add_select_coverable(b, coverable_element.name),
                          coverable_element.props, 1, TRUE),
                      "coverable"))

process_coverable(b, coverable_element) ==
    IF b.exc # "none" THEN b
    ELSE FileBuilder_coverages_from(coverable_rows(b, coverable_element),
                                    coverable_element.coverages, 1,
                                    coverable_element.name)

RECURSIVE FileBuilder_coverables_from(_, _, _)
FileBuilder_coverables_from(b, coverable_elements, i) ==
    IF b.exc # "none" \/ i > Len(coverable_elements) THEN b
    ELSE Bind(FileBuilder_selected(b, coverable_elements[i]), LAMBDA s :
             FileBuilder_coverables_from(
                 IF s.b.exc # "none" \/ ~s.val THEN s.b
                 ELSE process_coverable(s.b, coverable_elements[i]),
                 coverable_elements, i + 1))

FileBuilder_process_coverables(b, coverable_elements) ==
    IF b.exc # "none" THEN b
    ELSE IF Len(coverable_elements) = 0 THEN Fail(b, "SuiteDreamsException")
    ELSE FileBuilder_coverables_from(b, coverable_elements, 1)

process_product(b, d) ==
    FileBuilder_process_coverables(
        process_question_sets(b, d.product.questionSets, 1),
        d.product.coverables)

process_quote(b, d) ==
    IF b.exc = "none" /\ should_quote(d)
    THEN add_check_property(
             add_command(add_check_property(b, "CanRequestQuote", "true"), "quote"),
             "Status", "Quoted")
    ELSE b

process_bind(b, d) ==
    IF b.exc = "none" /\ should_bind(d)
    THEN add_check_property(
             add_command(add_check_property(b, "CanBind", "true"), "bind"),
             "Status", "Bound")
    ELSE b

\* produce_test_case up to test_case.output()
produce_test_case(b, d, tcn) ==
    process_bind(process_quote(process_product(process_policy(b, d, tcn), d), d), d)

-----------------------------------------------------------------------------
(* main.process                                                            *)

\* SchemaHandler.seed: the Seed text as an integer
seed(d) ==
    Bind(PyInt(d.seed), LAMBDA n :
        IF Raised(n) THEN Raise("SuiteDreamsException") ELSE n)

\* SchemaHandler.count, read for the first time
count(d) ==
    Bind(PyInt(d.count), LAMBDA n :
        IF Raised(n) THEN Raise("SuiteDreamsException")
        ELSE IF n.val < 0 THEN Raise("SuiteDreamsException")
        ELSE n)

\* the Seed texts and the Count texts of the documents main processes
SeedTexts == {<<"4", "2">>, <<"7">>, <<"-", "7">>, <<"x">>}
CountTexts == {IntChars(n) : n \in -1..MaxCount} \cup {<<"x">>}

MainDocuments ==
    {[Document(0, q, b, <<AccountNumberProp(NoAttr), SubmissionDateProp(w)>>,
               <<Dwelling(NoAttr, w, NoAttr)>>)
         EXCEPT !.seed = s, !.count = c] :
        q \in BOOLEAN, b \in BOOLEAN, w \in DocWeights,
        s \in SeedTexts, c \in CountTexts}

\* the except clauses of main: sys.exit(1)
ExitWithError ==
    /\ pc' = "exited"
    /\ exit' = "1"

\* process, from parse to random.seed(seed)
SeedGenerator ==
    /\ pc = "process"
    /\ IF Raised(seed(doc))
       THEN /\ ExitWithError
            /\ UNCHANGED <<grng, seedCalls>>
       ELSE /\ grng' = SeedState(seed(doc).val)
            /\ seedCalls' = seedCalls + 1
            /\ pc' = "count"
            /\ UNCHANGED exit
    /\ UNCHANGED <<doc, today, num, fb, tableVars, selVars>>

\* count = product_spec.count
ReadCount ==
    /\ pc = "count"
    /\ IF Raised(count(doc))
       THEN ExitWithError
       ELSE pc' = "loop" /\ UNCHANGED exit
    /\ num' = 0
    /\ UNCHANGED <<doc, today, grng, seedCalls, fb, tableVars, selVars>>

\* the loop head and FileBuilder(product_spec, test_suite_library, num + 1),
\* whose __init__ seeds the generator
NewFileBuilder ==
    /\ pc = "loop"
    /\ num < count(doc).val
    /\ fb' = [num |-> num + 1, rows |-> <<>>, state |-> "constructed",
              exc |-> "none"]
    /\ grng' = SeedState(seed(doc).val)
    /\ seedCalls' = seedCalls + 1
    /\ pc' = "produce"
    /\ UNCHANGED <<doc, today, num, exit, tableVars, selVars>>

\* produce_test_case whose failure is swallowed: the loop goes on
Mutant_Produced(b) ==
    /\ grng' = b.rng
    /\ fb' = [fb EXCEPT !.rows = b.rows, !.exc = b.exc,
                        !.state = IF b.exc = "none" THEN "written" ELSE "failed"]
    /\ pc' = "loop" /\ num' = num + 1 /\ UNCHANGED exit

\* what produce_test_case leaves: the rows, the generator, and the file written
\* by output() unless an exception is under way
Produced(b) ==
    /\ grng' = b.rng
    /\ fb' = [fb EXCEPT !.rows = b.rows, !.exc = b.exc,
                        !.state = IF b.exc = "none" THEN "written" ELSE "failed"]
    /\ IF b.exc = "none"
       THEN pc' = "loop" /\ num' = num + 1 /\ UNCHANGED exit
       ELSE ExitWithError /\ UNCHANGED num

\* file_builder.produce_test_case()
ProduceTestCase ==
    /\ pc = "produce"
    /\ Produced(produce_test_case(NewTestCase(grng), doc, test_case_number(fb.num)))
    /\ UNCHANGED <<doc, today, seedCalls, tableVars, selVars>>

\* the loop has ended: process returns and the finally clause of main calls
\* sys.exit(1)
Exit ==
    /\ pc = "loop"
    /\ num >= count(doc).val
    /\ pc' = "exited"
    /\ exit' = "1"
    /\ UNCHANGED <<doc, today, num, grng, seedCalls, fb, tableVars, selVars>>

Next ==
    \/ SeedGenerator
    \/ ReadCount
    \/ NewFileBuilder
    \/ ProduceTestCase
    \/ Exit

Init ==
    /\ doc \in MainDocuments
    /\ today \in Dates
    /\ pc = "process" /\ num = 0 /\ grng \in EntropyStates /\ seedCalls = 0
    /\ fb = NoFb /\ exit = "running"
    /\ TablesIdle /\ SelIdle

Spec == Init /\ [][Next]_vars

-----------------------------------------------------------------------------
(* Properties of main.process and FileBuilder (Spec)                       *)

\* C2: the random stream is seeded once per run and never again:
\* constructing a FileBuilder does not seed the generator.
C2_SeededOnce == seedCalls <= 1

\* the index of the first row equal to `row`, 0 when there is none
RECURSIVE IndexFrom(_, _, _)
IndexFrom(rows, row, i) ==
    IF i > Len(rows) THEN 0
    ELSE IF rows[i] = row THEN i
    ELSE IndexFrom(rows, row, i + 1)

IndexOf(rows, row) == IndexFrom(rows, row, 1)

QuoteRows == <<(<<"check", "CanRequestQuote", "as", "true">>), (<<"quote">>),
               (<<"check", "Status", "as", "Quoted">>)>>
BindRows == <<(<<"check", "CanBind", "as", "true">>), (<<"bind">>),
              (<<"check", "Status", "as", "Bound">>)>>

\* C10: Bind implies Quote: should_bind implies should_quote, and the test
\* case produce_test_case leaves for a Policy block with a Bind marker holds
\* the three quote rows, in order, and after them the bind rows.
C10_BindImpliesQuote ==
    /\ should_bind(doc) => should_quote(doc)
    /\ fb.state \in {"written", "failed"} /\ should_bind(doc) =>
          /\ \A k \in 1..3 : IndexOf(fb.rows, QuoteRows[k]) > 0
          /\ IndexOf(fb.rows, QuoteRows[1]) < IndexOf(fb.rows, QuoteRows[2])
          /\ IndexOf(fb.rows, QuoteRows[2]) < IndexOf(fb.rows, QuoteRows[3])
          /\ \A k \in 1..3 : IndexOf(fb.rows, BindRows[k]) = 0
                 \/ IndexOf(fb.rows, BindRows[k]) > IndexOf(fb.rows, QuoteRows[3])

-----------------------------------------------------------------------------
(* Properties of the selection functions (SpecSel)                         *)

SelectFns == {"SchemaHandler.select_element", "FileBuilder.select_element"}
ValuesFns == {"SchemaHandler.process_values", "FileBuilder.process_values"}
WeightFns == {"SchemaHandler.fetch_weight", "FileBuilder.fetch_weight"}

\* the sum of the first i weights of ws
RECURSIVE Cum(_, _)
Cum(ws, i) == IF i = 0 THEN 0 ELSE Cum(ws, i - 1) + ws[i]

AllValid(ws) == \A i \in 1..Len(ws) : ws[i] \in 0..100

\* C3: select_element returns true exactly when the drawn selector is <= the
\* element's weight; for every draw in 1..100 weight 100 is always included
\* and weight 0 never.
C3_SelectByWeight ==
    selOut.fn \in SelectFns /\ selIn.n \in 0..100 =>
        /\ selOut.selector \in 1..100
        /\ ~Raised(selOut.result)
        /\ selOut.result.val = (selOut.selector <= selIn.n)
        /\ (selIn.n = 100 => selOut.result.val = TRUE)
        /\ (selIn.n = 0 => selOut.result.val = FALSE)

C3_Witness ==
    /\ selOut.fn = "SchemaHandler.select_element"
    /\ selIn.kind = "weight" /\ selIn.n = 50 /\ selOut.selector = 51
    /\ selOut.result.val = FALSE

\* C4: process_values returns the value of the first candidate, in
\* declaration order, whose cumulative weight sum is >= the drawn selector,
\* and never the value of a later one.
C4_FirstCumulative ==
    selOut.fn \in ValuesFns /\ AllValid(selIn.ws) =>
        \A i \in 1..Len(selIn.ws) :
            (/\ Cum(selIn.ws, i) >= selOut.selector
             /\ \A j \in 1..(i - 1) : Cum(selIn.ws, j) < selOut.selector)
            => /\ ~Raised(selOut.result)
               /\ selOut.result.val = CandText(i)

C4_Witness ==
    /\ selOut.fn = "SchemaHandler.process_values"
    /\ selIn.ws = <<30, 70, 100>> /\ selOut.selector = 31
    /\ selOut.result.val = CandText(2)

\* C5: process_values raises the selection error exactly when the drawn
\* selector exceeds the total of the candidate weights: never when they sum
\* to 100, and for every draw in S+1..100 when they sum to S < 100.
C5_ExhaustedRaises ==
    selOut.fn \in ValuesFns /\ AllValid(selIn.ws) =>
        LET total == Cum(selIn.ws, Len(selIn.ws))
        IN  /\ Raised(selOut.result) <=> selOut.selector > total
            /\ Raised(selOut.result) => selOut.result.exc = "SuiteDreamsException"
            /\ total >= 100 => ~Raised(selOut.result)

C5_Witness ==
    /\ selOut.fn = "FileBuilder.process_values"
    /\ selIn.ws = <<30, 30>> /\ selOut.selector = 61
    /\ selOut.result.exc = "SuiteDreamsException"

\* C7: fetch_weight returns an integer in 0..100 for every element it
\* accepts; an absent weight yields 100; a weight that is not an integer or
\* lies outside 0..100 raises SuiteDreamsException.
C7_WeightRange ==
    selOut.fn \in WeightFns =>
        LET r == selOut.result
            t == selIn.weight.text
        IN  /\ ~Raised(r) => r.val \in 0..100
            /\ Raised(r) => r.exc = "SuiteDreamsException"
            /\ selIn.kind = "absent" => ~Raised(r) /\ r.val = 100
            /\ selIn.kind = "weight" /\ selIn.n \in 0..100
                   => ~Raised(r) /\ r.val = selIn.n
            /\ selIn.kind = "weight" /\ selIn.n \notin 0..100 => Raised(r)
            /\ selIn.kind = "text" /\ (\E i \in 1..Len(t) : t[i] = "x") => Raised(r)
            /\ selIn.kind = "text" /\ (\A i \in 1..Len(t) : t[i] \notin Digits)
                   => Raised(r)

C7_Witness ==
    /\ selOut.fn = "SchemaHandler.fetch_weight"
    /\ selIn.kind = "weight" /\ selIn.n = 101
    /\ selOut.result.exc = "SuiteDreamsException"

-----------------------------------------------------------------------------
(* Properties of the table builders (SpecTables, SpecRuns)                 *)

\* the run has completed all the scenarios of the document
Completed(r) == tpc[r].at = "start" /\ scen[r] = Count(doc)

\* C1: for a fixed specification and count, two independent runs make the
\* same draws at every decision point and generate identical rows in every
\* table of every scenario.
C1_Determinism ==
    Completed(1) /\ Completed(2) => suite[1] = suite[2]

\* the (decision point, kind of decision) pairs drawn more than once
DrawnTwice(log) ==
    {<<log[i].point, log[i].kind>> : i \in
        {i \in DOMAIN log : \E j \in DOMAIN log :
            j # i /\ log[j].point = log[i].point /\ log[j].kind = log[i].kind}}

\* C6: generating one scenario's tables consumes one draw per decision
\* point: no inclusion and no value of a Property, Coverable, Coverage,
\* Question or CoverageTerm is drawn more than once within the scenario.
C6_OneDrawPerDecisionPoint ==
    \A r \in Runs : DrawnTwice(drawLog[r]) = {}

\* the positions of the body holding the table titled `title`
TablesTitled(elements, title) ==
    {i \in 2..Len(elements) :
        elements[i].tag = "table" /\ elements[i - 1] = H2(title)}

\* C8: a scenario has a QuoteIssue table only if the Policy block carries a
\* Quote or a Bind marker.
C8_QuoteIssueOnlyIfMarked ==
    \A r \in Runs :
        TablesTitled(body[r], "Quote and Issue") # {} => should_quote(doc)

\* C9: the data row of the QuoteIssue table carries the Issue step only
\* when the Policy block has a Bind marker.
C9_IssueOnlyIfBind ==
    \A r \in Runs : \A i \in TablesTitled(body[r], "Quote and Issue") :
        \A k \in 3..Len(body[r][i].rows) :
            body[r][i].rows[k].cells[4] = "true" => should_bind(doc)

-----------------------------------------------------------------------------
(* Submission identifiers, table order and table contents                  *)

\* n written with four digits, for n below 10000
FourDigits(n) ==
    IF n < 10 THEN "000" \o ToString(n)
    ELSE IF n < 100 THEN "00" \o ToString(n)
    ELSE IF n < 1000 THEN "0" \o ToString(n)
    ELSE ToString(n)

\* the scenario numbers on which the identifiers are compared
ScenarioNumbers == {1, 2, 9, 10, 11, 99, 100, 101, 999, 1000, 1001, 9999}

\* every table of `elements` refers to the submission of scenario n: the data
\* rows of a column table in their second cell, the action table in its
\* select-submission row
SameSubmission(elements, n) ==
    \A i \in 2..Len(elements) :
        elements[i].tag = "table" =>
            IF elements[i - 1] = H2("Create Coverages")
            THEN elements[i].rows[3].cells =
                     <<"select", "submission", "SUBMISSION-" \o FourDigits(n), "">>
            ELSE \A k \in 3..Len(elements[i].rows) :
                     elements[i].rows[k].cells[2] = "SUBMISSION-" \o FourDigits(n)

\* C11: the submission identifier of scenario n is SUBMISSION- followed by n
\* padded with zeros to four digits; every table of scenario n carries that
\* identifier, and different scenario numbers have different identifiers.
C11_SubmissionId ==
    /\ \A r \in Runs :
          /\ SameSubmission(body[r], scen[r])
          /\ \A n \in DOMAIN suite[r] : SameSubmission(suite[r][n], n)
    /\ \A m \in ScenarioNumbers : \A n \in ScenarioNumbers :
          /\ submission_id(test_case_number(n)) = "SUBMISSION-" \o FourDigits(n)
          /\ m # n => submission_id(test_case_number(m))
                          # submission_id(test_case_number(n))

\* C11 witness: the second scenario of a suite is complete, and its five
\* tables carry SUBMISSION-0002 while those of the first carry SUBMISSION-0001
C11_Witness ==
    /\ Len(suite[1]) = 2
    /\ Len(suite[1][2]) = 10
    /\ suite[1][2][10].rows[3].cells[2] = "SUBMISSION-0002"
    /\ suite[1][2][8].rows[3].cells[3] = "SUBMISSION-0002"
    /\ suite[1][1][2].rows[3].cells[2] = "SUBMISSION-0001"

\* the titles and the classes of the tables in the order of the scenario
FixedTitles ==
    <<"Create Submission", "Create Answers to Pre-Qualificaton Questions",
      "Update Dwelling", "Create Coverages", "Quote and Issue">>
FixedRoles ==
    <<"CreateSubmission", "AnswerQuestions", "UpdateDwelling",
      "CreateCoverages", "QuoteIssue">>

RoleIndex(role) == CHOOSE i \in DOMAIN FixedRoles : FixedRoles[i] = role

\* headings and tables alternate, the k-th heading being the k-th title
InFixedOrder(elements) ==
    /\ Len(elements) <= 2 * Len(FixedTitles)
    /\ \A i \in DOMAIN elements :
          IF i % 2 = 1 THEN elements[i] = H2(FixedTitles[(i + 1) \div 2])
          ELSE elements[i].tag = "table"

\* no draw of a table follows a draw of a later table
DrawsInFixedOrder(log) ==
    \A i \in DOMAIN log : \A j \in DOMAIN log :
        i < j => RoleIndex(log[i].table) <= RoleIndex(log[j].table)

\* C12: the tables of a scenario are appended to the body in the order
\* CreateSubmission, AnswerQuestions, UpdateDwelling, CreateCoverages,
\* QuoteIssue, and every draw made for a table precedes every draw made for
\* a later table.
C12_FixedTableOrder ==
    \A r \in Runs :
        /\ InFixedOrder(body[r])
        /\ DrawsInFixedOrder(drawLog[r])
        /\ \A n \in DOMAIN suite[r] :
              InFixedOrder(suite[r][n]) /\ Len(suite[r][n]) = 2 * Len(FixedTitles)

\* C12 witness: a scenario with all five tables in its body whose draws were
\* made for the first four of them
C12_Witness ==
    /\ Len(body[1]) = 10
    /\ \A k \in 1..4 : \E i \in DOMAIN drawLog[1] :
          drawLog[1][i].table = FixedRoles[k]

\* the Questions declared by the question sets, in document order, each with
\* the code of its set
RECURSIVE DeclaredQuestions(_)
DeclaredQuestions(sets) ==
    IF sets = <<>> THEN <<>>
    ELSE [j \in DOMAIN Head(sets).questions |->
             [set |-> Head(sets).code, question |-> Head(sets).questions[j]]]
         \o DeclaredQuestions(Tail(sets))

AnswerTexts(question) ==
    {question.answers[a].text : a \in DOMAIN question.answers}

\* the data rows of an AnswerQuestions table are the declared Questions
AnswersAllQuestions(rows, declared) ==
    /\ Len(rows) = 2 + Len(declared)
    /\ \A k \in DOMAIN declared :
          /\ rows[2 + k].cells[3] = declared[k].set
          /\ rows[2 + k].cells[4] = declared[k].question.code
          /\ rows[2 + k].cells[5] \in AnswerTexts(declared[k].question)

\* C13: an AnswerQuestions table holds, after the fixture row and the
\* heading row, exactly one data row per Question of all QuestionSets in
\* document order, and the Answer cell of a row is one of the Answer
\* alternatives of its Question.
C13_OneRowPerQuestion ==
    \A r \in Runs :
        \A i \in TablesTitled(body[r], "Create Answers to Pre-Qualificaton Questions") :
            AnswersAllQuestions(body[r][i].rows,
                                DeclaredQuestions(doc.product.questionSets))

\* C13 witness: a table for two question sets with three Questions, whose
\* first Answer was drawn as the second alternative
C13_Witness ==
    /\ Len(doc.product.questionSets) = 2
    /\ Len(DeclaredQuestions(doc.product.questionSets)) = 3
    /\ \E i \in TablesTitled(body[1], "Create Answers to Pre-Qualificaton Questions") :
          /\ Len(body[1][i].rows) = 5
          /\ body[1][i].rows[3].cells[5] = "no"
          /\ body[1][i].rows[5].cells[3] = "QS2"

\* the cells of a heading row and of a data row between the Submission ID
\* column and the Valid() column are columns of included Properties: neither
\* is None, the heading names a Property and the value is one of its Values
PropertyColumns(headings, values, props) ==
    /\ Len(headings) = Len(values)
    /\ \A k \in 3..(Len(headings) - 1) :
          /\ headings[k] # None
          /\ values[k] # None
          /\ \E p \in DOMAIN props :
                /\ props[p].name = headings[k]
                /\ \E a \in DOMAIN props[p].values :
                      props[p].values[a].text = values[k]

\* C14: the UpdateDwelling table has one column per included Property of
\* the HOPDwelling Coverable: an excluded Property has neither a heading nor
\* a value, a heading is present if and only if its value is, and the value
\* under a heading is one of the Values of that Property.
C14_DwellingColumns ==
    \A r \in Runs : \A i \in TablesTitled(body[r], "Update Dwelling") :
        PropertyColumns(body[r][i].rows[2].cells, body[r][i].rows[3].cells,
                        doc.product.coverables[fetch_dwelling(doc)].props)

\* the creation mode of a Coverable: its select attribute, select when absent
CreationMode(coverable) ==
    IF coverable.select.present THEN coverable.select.text ELSE "select"

\* C15: in the CreateCoverages table a Coverable is introduced by a create
\* command when its select attribute is "create" and by a select command
\* when it is "select" or absent.
C15_CommandByCreationMode ==
    \A r \in Runs : \A i \in TablesTitled(body[r], "Create Coverages") :
        \A k \in DOMAIN body[r][i].rows :
            \A c \in DOMAIN doc.product.coverables :
                (/\ Len(body[r][i].rows[k].cells) = 4
                 /\ body[r][i].rows[k].cells[2] = "coverable"
                 /\ body[r][i].rows[k].cells[3] = doc.product.coverables[c].name)
                => body[r][i].rows[k].cells[1]
                       = CreationMode(doc.product.coverables[c])

\* row k of an action table is the command row of the coverable
CommandRowOf(rows, k, coverable) ==
    /\ Len(rows[k].cells) = 4
    /\ rows[k].cells[1] \in {"select", "create"}
    /\ rows[k].cells[2] = "coverable"
    /\ rows[k].cells[3] = coverable.name

\* C16: in the CreateCoverages table the command row of an included
\* Coverable is followed by one set row for each of its included Properties;
\* a Property without a weight attribute is always included.
C16_SetRowPerProperty ==
    \A r \in Runs : \A i \in TablesTitled(body[r], "Create Coverages") :
        \A k \in DOMAIN body[r][i].rows :
            \A c \in DOMAIN doc.product.coverables :
                CommandRowOf(body[r][i].rows, k, doc.product.coverables[c])
                => \A p \in DOMAIN doc.product.coverables[c].props :
                       ~doc.product.coverables[c].props[p].weight.present
                       => \E j \in (k + 1)..Len(body[r][i].rows) :
                              /\ body[r][i].rows[j].cells[1] = "set"
                              /\ body[r][i].rows[j].cells[2]
                                     = doc.product.coverables[c].props[p].name

\* the rows of the action table of scenario n begin with the fixture, the
\* test id and the submission, and their only commit row is the last row
ActionTableFrame(rows, n) ==
    /\ Len(rows) >= 4
    /\ \E f \in DOMAIN doc.fixtures :
          /\ doc.fixtures[f].role = "CreateCoverages"
          /\ rows[1].cells = <<doc.fixtures[f].fixture>>
    /\ rows[2].cells =
           <<"set", "TestId",
             "TEST-" \o doc.suiteId \o "-" \o FourDigits(n) \o "-CC", "">>
    /\ rows[3].cells = <<"select", "submission", "SUBMISSION-" \o FourDigits(n), "">>
    /\ {k \in DOMAIN rows : rows[k].cells[1] = "commit"} = {Len(rows)}
    /\ rows[Len(rows)].cells = <<"commit", "", "", "">>

\* C17: the CreateCoverages table starts with the fixture row, set TestId
\* and select submission, and ends with its only commit row.
C17_ActionTableFrame ==
    \A r \in Runs : \A i \in TablesTitled(body[r], "Create Coverages") :
        ActionTableFrame(body[r][i].rows, scen[r])

\* C17 witness: an action table with two Coverables, each with a coverage,
\* closed by one commit row
C17_Witness ==
    \E i \in TablesTitled(body[1], "Create Coverages") :
        /\ Cardinality({k \in DOMAIN body[1][i].rows :
                           body[1][i].rows[k].cells[1] = "select"
                           /\ body[1][i].rows[k].cells[2] = "coverable"}) = 2
        /\ Cardinality({k \in DOMAIN body[1][i].rows :
                           body[1][i].rows[k].cells[1] = "create"}) = 2
        /\ body[1][i].rows[Len(body[1][i].rows)].cells[1] = "commit"

-----------------------------------------------------------------------------
(* Specification errors                                                    *)

HasEmptyQuestionSet(d) ==
    \E s \in DOMAIN d.product.questionSets :
        d.product.questionSets[s].questions = <<>>

\* C18: a QuestionSet without Questions makes the generation of the
\* scenario fail with SuiteDreamsException: no AnswerQuestions table is
\* built from it, no scenario completes, and a failure is that exception.
C18_EmptyQuestionSetRaises ==
    \A r \in Runs :
        HasEmptyQuestionSet(doc) =>
            /\ TablesTitled(body[r], "Create Answers to Pre-Qualificaton Questions") = {}
            /\ suite[r] = <<>>
            /\ tpc[r].at = "failed" => tpc[r].exc = "SuiteDreamsException"

HasBareCoverable(d) ==
    \E c \in DOMAIN d.product.coverables :
        d.product.coverables[c].coverages = <<>>

\* C19: a Coverable without Coverages makes the generation of the scenario
\* fail with SuiteDreamsException: no CreateCoverages table is built from
\* it, no scenario completes, and a failure is that exception.
C19_BareCoverableRaises ==
    \A r \in Runs :
        HasBareCoverable(doc) =>
            /\ TablesTitled(body[r], "Create Coverages") = {}
            /\ suite[r] = <<>>
            /\ tpc[r].at = "failed" => tpc[r].exc = "SuiteDreamsException"

\* the weight of an element as the schema defines it
DeclaredWeight(element) ==
    IF element.weight.present THEN PyInt(element.weight.text).val ELSE 100

\* the CoverageTerms without Terms: coverable, coverage, term and code
TermlessTerms(d) ==
    {<<c, v, m>> \in (DOMAIN d.product.coverables) \X (1..MaxLen) \X (1..MaxLen) :
        /\ v \in DOMAIN d.product.coverables[c].coverages
        /\ m \in DOMAIN d.product.coverables[c].coverages[v].terms
        /\ d.product.coverables[c].coverages[v].terms[m].terms = <<>>}

\* the draws of the action table included coverable c and its coverage v
IncludedCoverage(log, d, c, v) ==
    /\ \E i \in DOMAIN log :
          /\ log[i].table = "CreateCoverages"
          /\ log[i].point = "Coverable[" \o ToString(c) \o "]"
          /\ log[i].kind = "include"
          /\ log[i].val <= DeclaredWeight(d.product.coverables[c])
    /\ \E i \in DOMAIN log :
          /\ log[i].table = "CreateCoverages"
          /\ log[i].point = "Coverable[" \o ToString(c) \o "]/Coverage["
                                \o ToString(v) \o "]"
          /\ log[i].kind = "include"
          /\ log[i].val <= DeclaredWeight(d.product.coverables[c].coverages[v])

\* C20: a CoverageTerm without Terms of an included Coverage makes the
\* generation of the scenario fail with SuiteDreamsException, and no table
\* holds a with row for that CoverageTerm; process_coverage_term of the
\* FileBuilder raises the same exception on it and adds no row.
C20_TermlessRaises ==
    \A r \in Runs : \A t \in TermlessTerms(doc) :
        /\ IncludedCoverage(drawLog[r], doc, t[1], t[2])
           => /\ tpc[r].at = "failed"
              /\ tpc[r].exc = "SuiteDreamsException"
              /\ TablesTitled(body[r], "Create Coverages") = {}
        /\ \A i \in TablesTitled(body[r], "Create Coverages") :
              \A k \in DOMAIN body[r][i].rows :
                  ~(/\ body[r][i].rows[k].cells[1] = "with"
                    /\ body[r][i].rows[k].cells[2] =
                           doc.product.coverables[t[1]].coverages[t[2]]
                               .terms[t[3]].code)
        /\ FileBuilder_process_coverage_term(
               NewTestCase(prng[r]),
               doc.product.coverables[t[1]].coverages[t[2]].terms[t[3]])
           = [rng |-> prng[r], exc |-> "SuiteDreamsException", rows |-> <<>>]

\* C20 witness: the Coverage of weight 50 with the CoverageTerm without
\* Terms was included by a draw, and the action table failed
C20_Witness ==
    /\ \E t \in TermlessTerms(doc) :
          /\ doc.product.coverables[t[1]].coverages[t[2]].weight.present
          /\ IncludedCoverage(drawLog[1], doc, t[1], t[2])
    /\ tpc[1] = [at |-> "failed", i |-> 4, exc |-> "SuiteDreamsException"]
    /\ Len(body[1]) = 7

\* the same Coverage excluded by its draw: the action table is complete
C20_ExcludedWitness ==
    /\ TermlessTerms(doc) # {}
    /\ TablesTitled(body[1], "Create Coverages") # {}

-----------------------------------------------------------------------------
(* Fixtures                                                                *)

\* the positions of the Fixtures with the role, in the Fixtures list
FixturesOf(d, role) == {f \in DOMAIN d.fixtures : d.fixtures[f].role = role}

\* the table under the k-th title has the FixtureClass of the first Fixture
\* of the k-th role in its fixture row
FirstFixture(elements, d) ==
    \A k \in DOMAIN FixedTitles : \A i \in TablesTitled(elements, FixedTitles[k]) :
        /\ FixturesOf(d, FixedRoles[k]) # {}
        /\ \E f \in FixturesOf(d, FixedRoles[k]) :
              /\ \A g \in FixturesOf(d, FixedRoles[k]) : f <= g
              /\ elements[i].rows[1].cells = <<d.fixtures[f].fixture>>

\* C21: when the Fixtures list has no Fixture for one of the five roles the
\* table of that role is not built, and no table has a fixture row without
\* a fixture; a table that is built has the FixtureClass of the first
\* Fixture of its role in its fixture row.
C21_FixtureResolved ==
    \A r \in Runs :
        /\ FirstFixture(body[r], doc)
        /\ \A k \in DOMAIN FixedRoles :
              FixturesOf(doc, FixedRoles[k]) = {}
              => /\ TablesTitled(body[r], FixedTitles[k]) = {}
                 /\ tpc[r].at # "format"
                 /\ suite[r] = <<>>
        /\ \A i \in DOMAIN body[r] :
              body[r][i].tag = "table" => body[r][i].rows[1].cells[1] # None

\* C21 witness: with two Fixtures for the role CreateCoverages the action
\* table carries the FixtureClass of the first of them
C21_Witness ==
    /\ Cardinality(FixturesOf(doc, "CreateCoverages")) = 2
    /\ \E i \in TablesTitled(body[1], "Create Coverages") :
          body[1][i].rows[1].cells = <<"first.CreateCoverages">>

\* the Fixtures list lacks the role UpdateDwelling and the constructors fail
C21_MissingWitness ==
    /\ FixturesOf(doc, "UpdateDwelling") = {}
    /\ FixturesOf(doc, "CreateSubmission") # {}
    /\ tpc[1] = [at |-> "failed", i |-> 0, exc |-> "AssertionError"]

-----------------------------------------------------------------------------
(* The test cases of main.process                                          *)

\* the Seed and the Count of the document are numbers main accepts
ValidSeedAndCount(d) == ~Raised(seed(d)) /\ ~Raised(count(d))

\* C22: for a valid specification with Count N the run generates exactly N
\* test cases, numbered 1..N, each of them carried by produce_test_case
\* through policy, product, quote and bind processing to its output.
C22_AllTestCasesProduced ==
    /\ fb.state = "failed" => ~ValidSeedAndCount(doc)
    /\ pc = "exited" /\ ValidSeedAndCount(doc) => num = count(doc).val

-----------------------------------------------------------------------------
(* SpecFns: add_row, the count accessor, fetch_selected_elements and       *)
(* FileBuilder.process_coverables applied to enumerated inputs             *)

\* the _count field of a SchemaHandler: None, or the integer it caches
NoCount == [set |-> FALSE, val |-> 0]

\* SchemaHandler.count on an object whose _count field is `cached`: the field
\* the read leaves and what the read returns
count_accessor(cached, text) ==
    IF cached.set THEN [cached |-> cached, result |-> Ok(cached.val)]
    ELSE Bind(PyInt(text), LAMBDA n :
             IF Raised(n)
             THEN [cached |-> cached, result |-> Raise("SuiteDreamsException")]
             ELSE IF n.val < 0
             THEN [cached |-> [set |-> TRUE, val |-> n.val],
                   result |-> Raise("SuiteDreamsException")]
             ELSE [cached |-> [set |-> TRUE, val |-> n.val], result |-> Ok(n.val)])

SeqsUpTo(S, n) == UNION {[1..k -> S] : k \in 0..n}

\* rows and flag lists of up to MaxLen cells, and lists of up to MaxLen
\* weighted children
CellTexts == {"a", "b"}
ChildWeights == {NoAttr, W(0), W(50), W(100)}
PriorRow == [cells |-> <<"fixtures.Prior">>, unique |-> <<FALSE>>]

\* a dwelling with two Properties and two Coverages
LargeDwelling(wp, wv) ==
    [Dwelling(NoAttr, wp, wv) EXCEPT
        !.props = <<RoofTypeProp(wp), [RoofTypeProp(NoAttr) EXCEPT !.name = "YearBuilt"]>>,
        !.coverages = <<CoverageA(wv), [CoverageA(W(50)) EXCEPT !.code = "CovB"]>>]

\* the Coverable lists process_coverables is applied to
FnCoverables ==
    CoverableVariants
    \cup {<<Garage, Dwelling(wc, wp, wv)>> :
             wc \in DocWeights, wp \in DocWeights, wv \in DocWeights}
    \cup {<<LargeDwelling(wp, wv), Garage>> : wp \in DocWeights, wv \in DocWeights}

FnInputs ==
    {[kind |-> "row", values |-> v, flags |-> f, text |-> <<>>,
      elements |-> <<>>, g |-> 0] :
        v \in SeqsUpTo(CellTexts, MaxLen),
        f \in {NoFlags} \cup {Flags(l) : l \in SeqsUpTo(BOOLEAN, MaxLen)}}
    \cup {[kind |-> "count", values |-> <<>>, flags |-> NoFlags, text |-> t,
           elements |-> <<>>, g |-> 0] : t \in CountTexts}
    \cup {[kind |-> "children", values |-> <<>>, flags |-> NoFlags, text |-> <<>>,
           elements |-> e, g |-> g] :
             e \in SeqsUpTo({[weight |-> w] : w \in ChildWeights}, MaxLen),
             g \in EntropyStates}
    \cup {[kind |-> "coverables", values |-> <<>>, flags |-> NoFlags,
           text |-> <<>>, elements |-> e, g |-> g] :
             e \in FnCoverables, g \in EntropyStates}

NoFnOut ==
    [fn |-> "none", build |-> NewBuild(0), selected |-> <<>>, cache |-> NoCount,
     reads |-> <<>>, test_case |-> NewTestCase(0)]

InitFns ==
    /\ doc = NoDoc /\ today = NoDate
    /\ MainIdle /\ TablesIdle
    /\ selIn \in FnInputs
    /\ selOut = NoFnOut

\* table.add_row(values, is_unique) on a table that holds one row
ApplyAddRow ==
    /\ selIn.kind = "row"
    /\ selOut.fn = "none"
    /\ selOut' = [selOut EXCEPT
                     !.fn = "add_row",
                     !.build = add_row([NewBuild(0) EXCEPT !.rows = <<PriorRow>>],
                                       selIn.values, selIn.flags)]
    /\ UNCHANGED <<doc, today, mainVars, tableVars, selIn>>

\* one more read of product_spec.count on the same object
ReadCountAccessor ==
    /\ selIn.kind = "count"
    /\ Len(selOut.reads) < MaxLen
    /\ LET c == count_accessor(selOut.cache, selIn.text)
       IN  selOut' = [selOut EXCEPT !.fn = "count", !.cache = c.cached,
                                    !.reads = Append(@, c.result)]
    /\ UNCHANGED <<doc, today, mainVars, tableVars, selIn>>

\* product_spec.fetch_selected_elements(parent, "Child")
ApplyFetchSelected ==
    /\ selIn.kind = "children"
    /\ selOut.fn = "none"
    /\ LET s == fetch_selected_elements(NewBuild(selIn.g), selIn.elements, "Child")
       IN  selOut' = [selOut EXCEPT !.fn = "fetch_selected_elements",
                                    !.build = s.b, !.selected = s.val]
    /\ UNCHANGED <<doc, today, mainVars, tableVars, selIn>>

\* file_builder.process_coverables(product_element) on an empty test case
ApplyProcessCoverables ==
    /\ selIn.kind = "coverables"
    /\ selOut.fn = "none"
    /\ selOut' = [selOut EXCEPT
                     !.fn = "process_coverables",
                     !.test_case = FileBuilder_process_coverables(
                                       NewTestCase(selIn.g), selIn.elements)]
    /\ UNCHANGED <<doc, today, mainVars, tableVars, selIn>>

NextFns ==
    \/ ApplyAddRow
    \/ ReadCountAccessor
    \/ ApplyFetchSelected
    \/ ApplyProcessCoverables

SpecFns == InitFns /\ [][NextFns]_vars

-----------------------------------------------------------------------------
(* Properties of add_row, count and fetch_selected_elements (SpecFns)      *)

\* the flag list is given and its length differs from that of the values
FlagsMismatch(values, flags) == ~flags.none /\ Len(flags.list) # Len(values)

\* C24: add_row appends one row with one cell per value, in the order of
\* the values; cell i is marked unique exactly when a flag list is given and
\* its i-th flag is true; an empty value list and a flag list of another
\* length are rejected and no row is appended.
C24_AddRowCarriesFlags ==
    selOut.fn = "add_row" =>
        IF Len(selIn.values) = 0 \/ FlagsMismatch(selIn.values, selIn.flags)
        THEN /\ selOut.build.exc = "AssertionError"
             /\ selOut.build.rows = <<PriorRow>>
        ELSE /\ selOut.build.exc = "none"
             /\ Len(selOut.build.rows) = 2
             /\ selOut.build.rows[1] = PriorRow
             /\ selOut.build.rows[2].cells = selIn.values
             /\ DOMAIN selOut.build.rows[2].unique = DOMAIN selIn.values
             /\ \A i \in DOMAIN selIn.values :
                   selOut.build.rows[2].unique[i]
                       <=> (~selIn.flags.none /\ selIn.flags.list[i])

\* C24 witness: a row of three cells appended with the flags of the second
\* cell only
C24_Witness ==
    /\ selOut.fn = "add_row"
    /\ selIn.values = <<"a", "b", "a">>
    /\ selIn.flags = Flags(<<FALSE, TRUE, FALSE>>)
    /\ selOut.build.rows[2].unique = <<FALSE, TRUE, FALSE>>

\* a flag list of two flags for three values is rejected
C24_RejectedWitness ==
    /\ selOut.fn = "add_row"
    /\ Len(selIn.values) = 3
    /\ ~selIn.flags.none /\ Len(selIn.flags.list) = 2
    /\ selOut.build.exc = "AssertionError"

\* C25: in the CreateCoverages table the uniqueness flag is attached to the
\* cell of the select-submission row that holds the submission identifier,
\* and to no other cell of that row or of the set-TestId row.
C25_UniqueSubmissionCell ==
    \A r \in Runs : \A i \in TablesTitled(body[r], "Create Coverages") :
        /\ body[r][i].rows[3].cells[1] = "select"
        /\ body[r][i].rows[3].cells[2] = "submission"
        /\ \A k \in DOMAIN body[r][i].rows[3].cells :
              body[r][i].rows[3].unique[k]
                  <=> body[r][i].rows[3].cells[k] = "SUBMISSION-" \o FourDigits(scen[r])
        /\ \A k \in DOMAIN body[r][i].rows[2].cells : ~body[r][i].rows[2].unique[k]

\* the Count text is a negative number
NegativeCount(text) == ~Raised(PyInt(text)) /\ PyInt(text).val < 0

\* C26: for a negative Count text every read of the count accessor, the
\* first and every later one, raises SuiteDreamsException and none returns a
\* negative number; for a non-negative Count every read returns the same
\* value.
C26_CountNeverNegative ==
    selOut.fn = "count" =>
        \A i \in DOMAIN selOut.reads :
            /\ NegativeCount(selIn.text)
               => selOut.reads[i].exc = "SuiteDreamsException"
            /\ selOut.reads[i].exc = "none" => selOut.reads[i].val >= 0
            /\ (~Raised(PyInt(selIn.text)) /\ ~NegativeCount(selIn.text))
               => /\ selOut.reads[i].exc = "none"
                  /\ selOut.reads[i].val = PyInt(selIn.text).val

\* the i-th draw of a generator that starts in state g
RECURSIVE DrawOf(_, _)
DrawOf(g, i) == IF i = 1 THEN Randint(g).val ELSE DrawOf(Randint(g).state, i - 1)

\* C27: fetch_selected_elements visits the children in document order,
\* consumes exactly one draw per child, included or not, and returns exactly
\* the children whose draw is at most their weight, in document order.
C27_SelectedInOrder ==
    selOut.fn = "fetch_selected_elements" =>
        /\ selOut.build.exc = "none"
        /\ Len(selOut.build.log) = Len(selIn.elements)
        /\ \A i \in DOMAIN selIn.elements :
              /\ selOut.build.log[i].point = "Child[" \o ToString(i) \o "]"
              /\ selOut.build.log[i].val = DrawOf(selIn.g, i)
        /\ \A k \in DOMAIN selOut.selected : \A m \in DOMAIN selOut.selected :
              k < m => selOut.selected[k] < selOut.selected[m]
        /\ {selOut.selected[k] : k \in DOMAIN selOut.selected}
               = {i \in DOMAIN selIn.elements :
                     DrawOf(selIn.g, i) <= DeclaredWeight(selIn.elements[i])}

\* C27 witness: of three children of weight 50 the first and the third are
\* returned, and three draws were consumed
C27_Witness ==
    /\ selOut.fn = "fetch_selected_elements"
    /\ selIn.elements = <<[weight |-> W(50)], [weight |-> W(50)], [weight |-> W(50)]>>
    /\ selOut.selected = <<1, 3>>
    /\ Len(selOut.build.log) = 3

\* the kind of a row of the FileBuilder command sequence
RowKind(row) ==
    IF row = <<"commit", "coverable">> THEN "commit coverable"
    ELSE IF row = <<"commit", "coverage">> THEN "commit coverage"
    ELSE IF Len(row) = 5 /\ row[1] = "create" /\ row[2] = "coverage"
    THEN "create coverage"
    ELSE IF Len(row) = 2 /\ row[1] \in {"select", "create"} THEN "coverable"
    ELSE IF row[1] = "set_select" THEN "set_select"
    ELSE IF row[1] = "with" THEN "with"
    ELSE "other"

\* the kinds of row that may follow a row of the kind
MayFollow(kind) ==
    IF kind \in {"coverable", "set_select"} THEN {"set_select", "commit coverable"}
    ELSE IF kind \in {"create coverage", "with"} THEN {"with", "commit coverage"}
    ELSE IF kind \in {"commit coverable", "commit coverage", "start"}
    THEN {"coverable", "create coverage"}
    ELSE {}

RowsOfKind(rows, kind) == {k \in DOMAIN rows : RowKind(rows[k]) = kind}

\* the Coverables of the list with the name
Named(coverables, name) ==
    {c \in DOMAIN coverables : coverables[c].name = name}

\* the row of the create-coverage command that row k belongs to
OpenCoverage(rows, k) ==
    rows[CHOOSE j \in RowsOfKind(rows, "create coverage") :
             j < k /\ \A m \in RowsOfKind(rows, "create coverage") : m < k => m <= j]

\* C28: the rows of process_coverables are bracketed: the select or create
\* row of a Coverable, its set_select rows and commit coverable are emitted
\* in that order and only for a Coverable that declares a Property; a create
\* coverage row is followed only by with rows of that Coverage and then by
\* commit coverage; at the end there are as many commit coverage rows as
\* create coverage rows.
C28_RowsBracketed ==
    selOut.fn = "process_coverables" =>
        /\ \A k \in DOMAIN selOut.test_case.rows :
              /\ RowKind(selOut.test_case.rows[k]) # "other"
              /\ RowKind(selOut.test_case.rows[k])
                     \in MayFollow(IF k = 1 THEN "start"
                                   ELSE RowKind(selOut.test_case.rows[k - 1]))
        /\ \A k \in RowsOfKind(selOut.test_case.rows, "coverable") :
              \E c \in Named(selIn.elements, selOut.test_case.rows[k][2]) :
                  /\ Len(selIn.elements[c].props) > 0
                  /\ selOut.test_case.rows[k][1]
                         = CreationMode(selIn.elements[c])
        /\ \A k \in RowsOfKind(selOut.test_case.rows, "with") :
              \E c \in Named(selIn.elements,
                             OpenCoverage(selOut.test_case.rows, k)[5]) :
                  \E v \in DOMAIN selIn.elements[c].coverages :
                      /\ selIn.elements[c].coverages[v].code
                             = OpenCoverage(selOut.test_case.rows, k)[3]
                      /\ \E m \in DOMAIN selIn.elements[c].coverages[v].terms :
                             selIn.elements[c].coverages[v].terms[m].code
                                 = selOut.test_case.rows[k][2]
        /\ selOut.test_case.exc = "none" =>
              /\ Cardinality(RowsOfKind(selOut.test_case.rows, "create coverage"))
                     = Cardinality(RowsOfKind(selOut.test_case.rows, "commit coverage"))
              /\ selOut.test_case.rows # <<>> =>
                     RowKind(selOut.test_case.rows[Len(selOut.test_case.rows)])
                         \in {"commit coverable", "commit coverage"}

\* C28 witness: a Coverable without Properties gave coverage rows only, the
\* Coverable after it its command row, a set_select row and commit
\* coverable, then a committed coverage
C28_Witness ==
    /\ selOut.fn = "process_coverables"
    /\ selOut.test_case.exc = "none"
    /\ Len(selOut.test_case.rows) = 9
    /\ selOut.test_case.rows[1] = <<"create", "coverage", "CovA", "on", "Garage">>
    /\ selOut.test_case.rows[3] = <<"commit", "coverage">>
    /\ selOut.test_case.rows[4] = <<"select", "HOPDwelling">>
    /\ selOut.test_case.rows[5][1] = "set_select"
    /\ selOut.test_case.rows[6] = <<"commit", "coverable">>
    /\ selOut.test_case.rows[9] = <<"commit", "coverage">>

-----------------------------------------------------------------------------
(* Weighted exclusion in the tables (SpecTables)                           *)

\* at least one Coverable, every Coverable with a Coverage, every
\* CoverageTerm with a Term
ValidCoverables(d) ==
    /\ Len(d.product.coverables) > 0
    /\ \A c \in DOMAIN d.product.coverables :
          /\ Len(d.product.coverables[c].coverages) > 0
          /\ \A v \in DOMAIN d.product.coverables[c].coverages :
                \A m \in DOMAIN d.product.coverables[c].coverages[v].terms :
                    d.product.coverables[c].coverages[v].terms[m].terms # <<>>

\* C29: for a valid specification the CreateCoverages table is built
\* whatever the draws are: the exclusion of every Coverable, or of every
\* Coverage of an included Coverable, is not a failure.
C29_ExclusionNeverFails ==
    \A r \in Runs :
        ValidCoverables(doc) => ~(tpc[r].at = "failed" /\ tpc[r].i = 4)

\* the sum of the weights of the first i alternatives
RECURSIVE WeightSum(_, _)
WeightSum(alternatives, i) ==
    IF i = 0 THEN 0
    ELSE WeightSum(alternatives, i - 1) + DeclaredWeight(alternatives[i])

\* the Policy Properties named AccountNumber whose Value weights reach 100
CoveredAccountNumbers(d) ==
    {p \in DOMAIN d.policy.props :
        /\ d.policy.props[p].name = "AccountNumber"
        /\ WeightSum(d.policy.props[p].values, Len(d.policy.props[p].values)) >= 100}

\* C30: when the Policy block declares an AccountNumber Property whose
\* Value weights cover the draws 1..100, the CreateSubmission table is built
\* for every draw sequence and its Account Number cell holds one of the
\* Values of that Property, whatever the inclusion weights are.
C30_AccountNumberAlways ==
    \A r \in Runs :
        CoveredAccountNumbers(doc) # {} =>
            /\ ~(tpc[r].at = "failed" /\ tpc[r].i = 1)
            /\ \A i \in TablesTitled(body[r], "Create Submission") :
                  \E p \in CoveredAccountNumbers(doc) :
                      \E a \in DOMAIN doc.policy.props[p].values :
                          body[r][i].rows[3].cells[3]
                              = doc.policy.props[p].values[a].text

====
